---- MODULE Spec2Model ----
(***************************************************************************)
(* The gaodun extractor of hydrz/lux: URL -> course ID -> schema            *)
(* classification -> concurrent tree walk -> resource resolution -> merged  *)
(* list of media descriptors.                                               *)
(*                                                                          *)
(* Strings are sequences of one-character strings, so that concatenation,   *)
(* trimming and truncation are computed and not assumed.  A nil pointer is  *)
(* the empty sequence None, a non-nil pointer to x is Some(x).              *)
(***************************************************************************)
EXTENDS Integers, Sequences, FiniteSets, TLC

VARIABLES
    world,      \* the remote course and the URL of this extraction (fixed by Init)
    pc,         \* position of every goroutine, by task id
    acc,        \* the allData accumulator of every traversal frame, by frame id
    tmp,        \* the slice header a task read for its pending append
    mu,         \* the set of mutexes currently held
    gw,         \* the gateway calls issued so far and their outcomes
    visits,     \* how often the walker has processed each gradation / syllabus node
    result,     \* what Extract returned: None until it returns
    rin,        \* resolver check: the resource and gateway answers under test
    rout        \* resolver check: what processResource returned for rin

vars == <<world, pc, acc, tmp, mu, gw, visits, result, rin, rout>>

----------------------------------------------------------------------------
(* Bounds of the model *)

MaxGrad  == 2   \* gradations in a listing
MaxKids  == 2   \* children of a syllabus node
MaxRes   == 2   \* resources in one resource slot
MaxSegs  == 2   \* segment URLs a manifest expands to
MaxOver  == 2   \* bytes by which a name given to the sanitizer exceeds the length limit

----------------------------------------------------------------------------
(* Strings and small helpers *)

None == <<>>
Some(x) == <<x>>

Digits == <<"0", "1", "2", "3", "4", "5", "6", "7", "8", "9">>

RECURSIVE ItoaNat(_)
ItoaNat(n) == IF n < 10 THEN <<Digits[n + 1]>>
              ELSE ItoaNat(n \div 10) \o <<Digits[(n % 10) + 1]>>

\* strconv.Itoa / fmt %d
Itoa(n) == IF n < 0 THEN <<"-">> \o ItoaNat(0 - n) ELSE ItoaNat(n)

Alnum == {"a", "b", "c", "r", "t", "0", "1", "2"}   \* the characters of [a-zA-Z0-9] the model uses

RECURSIVE ClassPrefix(_, _)
\* the longest prefix of s made of characters of class cls (a greedy cls* match)
ClassPrefix(s, cls) ==
    IF s = <<>> \/ Head(s) \notin cls THEN <<>>
    ELSE <<Head(s)>> \o ClassPrefix(Tail(s), cls)

RECURSIVE SumSeq(_)
SumSeq(s) == IF s = <<>> THEN 0 ELSE Head(s) + SumSeq(Tail(s))


Range(f) == {f[x] : x \in DOMAIN f}

----------------------------------------------------------------------------
(* Sanitizer and path building *)

MaxNameLen == 100

BannedChars == {"/", "\\", ":", "*", "?", "\"", "<", ">", "|"}

TrimCut == {" ", "."}

RECURSIVE TrimLeft(_, _)
TrimLeft(s, cut) == IF s # <<>> /\ Head(s) \in cut THEN TrimLeft(Tail(s), cut) ELSE s

RECURSIVE TrimRight(_, _)
TrimRight(s, cut) ==
    IF s # <<>> /\ s[Len(s)] \in cut THEN TrimRight(SubSeq(s, 1, Len(s) - 1), cut) ELSE s

\* variant that cuts one character at most from each end (C13 depends on the
\* trim removing the whole run)
TrimOnce(s, cut) ==
    LET l == IF s # <<>> /\ Head(s) \in cut THEN Tail(s) ELSE s
    IN  IF l # <<>> /\ l[Len(l)] \in cut THEN SubSeq(l, 1, Len(l) - 1) ELSE l

\* strings.Trim(result, " .")
Trim(s, cut) == TrimRight(TrimLeft(s, cut), cut)

\* strings.ReplaceAll for each of the nine single-character keys of replacements
ReplaceBanned(name) ==
    [i \in 1..Len(name) |-> IF name[i] \in BannedChars THEN "-" ELSE name[i]]

\* variant without the second trim of line 138 (C12 depends on it)
sanitizeFileNameNoRetrim(name) ==
    LET trimmed == Trim(ReplaceBanned(name), TrimCut)
    IN  IF Len(trimmed) > MaxNameLen THEN SubSeq(trimmed, 1, MaxNameLen) ELSE trimmed

\* lines 112-142; a string is the sequence of its bytes, as len and result[:100] take it
sanitizeFileName(name) ==
    LET trimmed == Trim(ReplaceBanned(name), TrimCut)
    IN  IF Len(trimmed) > MaxNameLen
        THEN TrimRight(SubSeq(trimmed, 1, MaxNameLen), TrimCut)
        ELSE trimmed

RECURSIVE Clean(_, _)
\* filepath.Clean on the segments still to come, given the cleaned path so far:
\* an empty segment and "." vanish, ".." removes the segment before it
Clean(done, rest) ==
    IF rest = <<>> THEN done
    ELSE LET e == Head(rest)
         IN  IF e = <<>> \/ e = <<".">> THEN Clean(done, Tail(rest))
             ELSE IF e = <<".", ".">> /\ done # <<>> /\ done[Len(done)] # <<".", ".">>
             THEN Clean(SubSeq(done, 1, Len(done) - 1), Tail(rest))
             ELSE Clean(Append(done, e), Tail(rest))

\* filepath.Join of elements that hold no separator: the cleaned list of the
\* elements (a path is its list of segments)
Join(elems) == Clean(<<>>, elems)

\* variant without the fallback name (C25 depends on lines 515-518 and 552-555)
FileNameNoFallback(san, prefix, id) == san

\* lines 514-518 and 551-555: the sanitized title, or prefix and ID
FileName(san, prefix, id) == IF san = <<>> THEN prefix \o Itoa(id) ELSE san

\* baseDir of a syllabus node: filepath.Join(courseID, sanitize(gradation), sanitize(syllabus))
BaseDir(courseID, gradationName, syllabusName) ==
    Join(<<courseID, sanitizeFileName(gradationName), sanitizeFileName(syllabusName)>>)

----------------------------------------------------------------------------
(* Locator of the live deep link *)

RoomChars == Alnum \cup {"-"}

\* A deep link is modelled by its parts: whether the fixed prefix
\* gaodunapp://gd/liveroom/v2/replays/detail?recordId= is present, and the text
\* standing at recordId=, &did=, &roomId= and &token=.
extractRoomIDAndToken(link) ==
    LET tok == ClassPrefix(link.token, Alnum)
        ok  == /\ link.prefix
               /\ link.recordId # <<>> /\ ClassPrefix(link.recordId, Alnum) = link.recordId
               /\ link.did # <<>> /\ ClassPrefix(link.did, Alnum) = link.did
               /\ link.roomId # <<>> /\ ClassPrefix(link.roomId, RoomChars) = link.roomId
               /\ tok # <<>>
    IN  IF ok THEN [roomID |-> link.roomId, token |-> tok, err |-> FALSE]
        ELSE [roomID |-> <<>>, token |-> <<>>, err |-> TRUE]

----------------------------------------------------------------------------
(* Resource resolver.  env holds the answers the gateway and the manifest    *)
(* expansion give for this resource: env.check for GLiveCheck, env.vr[id]    *)
(* for VideoResource(id), env.expand[path] for M3u8URLsWithHeaders(path).    *)

\* Data.Site (the source puts the Chinese name of the site before it)
Site == "gaodun.com"

VideoPrefix == <<"v", "i", "d", "e", "o", "_">>
DocPrefix == <<"d", "o", "c", "u", "m", "e", "n", "t", "_">>
UrlPrefix == <<"g", "a", "o", "d", "u", "n", ":", "/", "/", "v", "i", "d", "e", "o", "/">>

ApiError == [err |-> TRUE, List |-> <<>>]

\* e.api.VideoResource(videoID, "SD", 0)
VideoResourceCall(env, videoID) ==
    IF videoID \in DOMAIN env.vr THEN env.vr[videoID] ELSE ApiError

\* utils.M3u8URLsWithHeaders(path, headers)
ExpandManifest(env, path) ==
    IF path \in DOMAIN env.expand THEN env.expand[path] ELSE [err |-> TRUE, urls |-> <<>>]

\* variant that makes a stream of a quality whose manifest expansion failed
\* (C23 depends on the `continue` of line 482)
UsableQualitiesAnyExpansion(env, list) ==
    {q \in DOMAIN list : list[q].Available = 1 /\ list[q].Path # <<>>}

\* the qualities of a quality list that get a stream (lines 459-483)
UsableQualities(env, list) ==
    {q \in DOMAIN list :
        /\ list[q].Available = 1
        /\ list[q].Path # <<>>
        /\ ~ExpandManifest(env, list[q].Path).err}

StreamID(videoID, quality) == videoID \o <<"_">> \o quality

\* lines 485-507
VideoStream(env, resource, quality, info) ==
    LET urls == ExpandManifest(env, info.Path).urls
    IN  [ID      |-> StreamID(resource.VideoID, quality),
         Parts   |-> [i \in 1..Len(urls) |-> [URL |-> urls[i], Size |-> 0, Ext |-> "ts"]],
         Quality |-> info.Resolution,
         Size    |-> info.FileSize * 1024,
         Ext     |-> "",
         NeedMux |-> FALSE]

\* the manifest expansions processVideoResource issues, one per quality that is
\* available and has a path
ExpandCalls(list) ==
    Cardinality({q \in DOMAIN list : list[q].Available = 1 /\ list[q].Path # <<>>})

\* variant without the emptiness test of lines 510-512 (C9 depends on the test)
NoStreamsUntested(streams) == FALSE

NoStreams(streams) == DOMAIN streams = {}

processVideoResource(resource, baseDir, env) ==
    LET videoID  == resource.VideoID
        videoRes == VideoResourceCall(env, videoID)
    IN  IF videoRes.err
        THEN [data |-> None, err |-> TRUE, calls |-> [check |-> 0, quality |-> 1, expand |-> 0]]
        ELSE
        LET usable  == UsableQualities(env, videoRes.List)
            ids     == {StreamID(resource.VideoID, q) : q \in usable}
            streams == [id \in ids |->
                          LET q == CHOOSE q \in usable : StreamID(resource.VideoID, q) = id
                          IN  VideoStream(env, resource, q, videoRes.List[q])]
            calls   == [check |-> 0, quality |-> 1, expand |-> ExpandCalls(videoRes.List)]
            san      == sanitizeFileName(resource.Title)
            filename == FileName(san, VideoPrefix, resource.ID)
        IN  IF NoStreams(streams)
            THEN [data |-> None, err |-> TRUE, calls |-> calls]
            ELSE [data |-> Some([Site    |-> Site,
                                 Title   |-> Join(baseDir \o <<filename>>),
                                 Type    |-> "video",
                                 Streams |-> streams,
                                 URL     |-> UrlPrefix \o videoID]),
                  err |-> FALSE, calls |-> calls]

IsDigits(s) == s # <<>> /\ \A i \in 1..Len(s) : s[i] \in Range(Digits)

DigitVal(c) == (CHOOSE i \in 1..10 : Digits[i] = c) - 1

RECURSIVE DecVal(_)
DecVal(s) == IF s = <<>> THEN 0 ELSE DecVal(SubSeq(s, 1, Len(s) - 1)) * 10 + DigitVal(s[Len(s)])

\* strconv.Atoi: an optional sign, then digits only
Atoi(s) ==
    LET signed == s # <<>> /\ Head(s) \in {"+", "-"}
        body   == IF signed THEN Tail(s) ELSE s
    IN  IF ~IsDigits(body) THEN [err |-> TRUE, val |-> 0]
        ELSE [err |-> FALSE,
              val |-> IF signed /\ Head(s) = "-" THEN 0 - DecVal(body) ELSE DecVal(body)]

\* lines 536-549
DocExtension(resource) ==
    IF resource.Extension # "" THEN resource.Extension
    ELSE CASE resource.Mime = "application/pdf" -> "pdf"
           [] resource.Mime = "application/msword" -> "doc"
           [] resource.Mime = "application/vnd.openxmlformats-officedocument.wordprocessingml.document" -> "docx"
           [] OTHER -> "file"

\* variant without the default of lines 558-560: a size that does not parse is
\* reported as -1 (C24 depends on the default 0)
DocSizeNoDefault(resource) ==
    IF Atoi(resource.Filesize).err THEN 0 - 1 ELSE Atoi(resource.Filesize).val

\* lines 557-560
DocSize(resource) ==
    IF Atoi(resource.Filesize).err THEN 0 ELSE Atoi(resource.Filesize).val

NoCalls == [check |-> 0, quality |-> 0, expand |-> 0]

processNonVideoResource(resource, baseDir) ==
    IF resource.Path = <<>>
    THEN [data |-> None, err |-> FALSE, calls |-> NoCalls]
    ELSE
    LET ext      == DocExtension(resource)
        san      == sanitizeFileName(resource.Title)
        filename == FileName(san, DocPrefix, resource.ID)
        size     == DocSize(resource)
        id       == Itoa(resource.ID)
    IN  [data |-> Some([Site    |-> Site,
                        Title   |-> Join(baseDir \o <<filename>>),
                        Type    |-> "document",
                        Streams |-> [k \in {id} |->
                                       [ID      |-> id,
                                        Parts   |-> <<[URL |-> resource.Path, Size |-> size, Ext |-> ext]>>,
                                        Quality |-> <<"U", "n", "k", "n", "o", "w", "n">>,
                                        Size    |-> size,
                                        Ext     |-> ext,
                                        NeedMux |-> FALSE]],
                        URL     |-> resource.Path]),
         err |-> FALSE, calls |-> NoCalls]

AddCheck(r) == [r EXCEPT !.calls.check = @ + 1]

\* variant that falls back to the resource's own video ID when the deep link or
\* the token exchange fails (C11 depends on the two `return nil, nil`)
processResourceLiveFallback(resource, baseDir, env) ==
    CASE resource.Discriminator \in {"live_new", "video"} -> processVideoResource(resource, baseDir, env)
      [] resource.Discriminator = "lecture_note" -> processNonVideoResource(resource, baseDir)
      [] OTHER -> [data |-> None, err |-> FALSE, calls |-> NoCalls]

\* variant that treats every unlisted discriminator as a video (C8 depends on
\* the switch having no default mapping)
processResourceDefaultVideo(resource, baseDir, env) ==
    CASE resource.Discriminator = "lecture_note" -> processNonVideoResource(resource, baseDir)
      [] OTHER -> processVideoResource(resource, baseDir, env)

\* variant that keeps the resource's own video ID after the token exchange
\* (C22 depends on the substitution of line 426)
processResourceKeepVideoID(resource, baseDir, env) ==
    CASE resource.Discriminator = "live_new" ->
            LET loc == extractRoomIDAndToken(resource.LiveUrlPlayBackApp)
            IN  IF loc.err THEN [data |-> None, err |-> FALSE, calls |-> NoCalls]
                ELSE IF env.check.err
                THEN [data |-> None, err |-> FALSE,
                      calls |-> [check |-> 1, quality |-> 0, expand |-> 0]]
                ELSE AddCheck(processVideoResource(resource, baseDir, env))
      [] resource.Discriminator = "video" -> processVideoResource(resource, baseDir, env)
      [] resource.Discriminator = "lecture_note" -> processNonVideoResource(resource, baseDir)
      [] OTHER -> [data |-> None, err |-> FALSE, calls |-> NoCalls]

\* lines 403-435
processResource(resource, baseDir, env) ==
    CASE resource.Discriminator = "live_new" ->
            LET loc == extractRoomIDAndToken(resource.LiveUrlPlayBackApp)
            IN  IF loc.err THEN [data |-> None, err |-> FALSE, calls |-> NoCalls]
                ELSE IF env.check.err
                THEN [data |-> None, err |-> FALSE,
                      calls |-> [check |-> 1, quality |-> 0, expand |-> 0]]
                ELSE AddCheck(processVideoResource(
                         [resource EXCEPT !.VideoID = env.check.code], baseDir, env))
      [] resource.Discriminator = "video" -> processVideoResource(resource, baseDir, env)
      [] resource.Discriminator = "lecture_note" -> processNonVideoResource(resource, baseDir)
      [] OTHER -> [data |-> None, err |-> FALSE, calls |-> NoCalls]

----------------------------------------------------------------------------
(* Inputs of the resolver check *)

SD == <<"S", "D">>
HD == <<"H", "D">>
QualityLabels == {SD, HD}

ManifestPath(q) == <<"m">> \o q

\* what a manifest expansion can answer: an error, or 0..MaxSegs segment URLs
ExpandOutcomes ==
    {[err |-> TRUE, urls |-> <<>>]} \cup
    {[err |-> FALSE, urls |-> [i \in 1..n |-> <<"u">> \o Itoa(i)]] : n \in 0..MaxSegs}

\* the answers of VideoResource: an API error or a quality list over some labels
QualityLists ==
    UNION {[labels -> [Available : {0, 1}, hasPath : BOOLEAN]] : labels \in SUBSET QualityLabels}

ListOf(ql) ==
    [q \in DOMAIN ql |->
        [Available |-> ql[q].Available,
         Path |-> IF ql[q].hasPath THEN ManifestPath(q) ELSE <<>>,
         FileSize |-> IF q = SD THEN 3 ELSE 5, Resolution |-> "720p"]]

VideoAnswers == {ApiError} \cup {[err |-> FALSE, List |-> ListOf(ql)] : ql \in QualityLists}

Expansions == [{ManifestPath(q) : q \in QualityLabels} -> ExpandOutcomes]

GoodList == [q \in {SD} |-> [Available |-> 1, Path |-> ManifestPath(SD), FileSize |-> 3, Resolution |-> "720p"]]
GoodAnswer == [err |-> FALSE, List |-> GoodList]

VidV == <<"v", "1">>     \* the video identifier a resource carries
VidC == <<"c", "1">>     \* the code the token exchange answers

GoodLink == [prefix |-> TRUE, recordId |-> <<"r">>, did |-> <<"a">>, roomId |-> <<"r", "-", "1">>, token |-> <<"t", "0">>]
Links ==
    {GoodLink,
     [GoodLink EXCEPT !.prefix = FALSE],
     [GoodLink EXCEPT !.token = <<>>],
     [GoodLink EXCEPT !.roomId = <<"r", "/">>]}

BaseResource ==
    [ID |-> 7, Title |-> <<"T">>, Discriminator |-> "video", VideoID |-> VidV,
     Path |-> <<>>, Extension |-> "", Mime |-> "", Filesize |-> <<>>,
     LiveUrlPlayBackApp |-> [GoodLink EXCEPT !.prefix = FALSE]]

Titles == {<<"T">>, <<>>, <<" ", ".">>, <<"a", "/", "b">>, <<".", ".">>}

CheckErr == [err |-> TRUE, code |-> <<>>]
CheckOk == [err |-> FALSE, code |-> VidC]

VideoInputs ==
    {[resource |-> [BaseResource EXCEPT !.Title = t],
      env |-> [check |-> CheckErr, vr |-> [id \in {VidV} |-> a], expand |-> x]] :
        t \in {<<"T">>, <<>>}, a \in VideoAnswers, x \in Expansions}

LiveInputs ==
    {[resource |-> [BaseResource EXCEPT !.Discriminator = "live_new", !.LiveUrlPlayBackApp = l],
      env |-> [check |-> c, vr |-> [id \in {VidV, VidC} |-> IF id = VidC THEN a ELSE GoodAnswer],
               expand |-> x]] :
        l \in Links, c \in {CheckErr, CheckOk}, a \in VideoAnswers,
        x \in {e \in Expansions : e[ManifestPath(HD)].err}}

DocInputs ==
    {[resource |-> [BaseResource EXCEPT !.Discriminator = "lecture_note", !.Title = t, !.Path = p,
                                        !.Extension = e, !.Mime = m, !.Filesize = f],
      env |-> [check |-> CheckErr, vr |-> [id \in {VidV} |-> GoodAnswer],
               expand |-> [pp \in {ManifestPath(SD)} |-> [err |-> FALSE, urls |-> <<<<"u">>>>]]]] :
        t \in Titles, p \in {<<>>, <<"p">>}, e \in {"", "pdf"},
        m \in {"application/pdf", "application/msword", "text/plain"},
        f \in {<<>>, <<"1", "2">>, <<"x">>, <<"-", "4">>}}

OtherInputs ==
    {[resource |-> [BaseResource EXCEPT !.Discriminator = d, !.Path = p, !.LiveUrlPlayBackApp = l],
      env |-> [check |-> c, vr |-> [id \in {VidV, VidC} |-> GoodAnswer],
               expand |-> [pp \in {ManifestPath(SD)} |-> [err |-> FALSE, urls |-> <<<<"u">>>>]]]] :
        d \in {"audio", "", "live", "Video"}, p \in {<<>>, <<"p">>}, l \in Links,
        c \in {CheckErr, CheckOk}}

ResolverInputs == VideoInputs \cup LiveInputs \cup DocInputs \cup OtherInputs

TestBaseDir == <<<<"1", "7">>, <<"G">>, <<"n">>>>

----------------------------------------------------------------------------
(* Specification of the resolver alone: one resource, one call *)

Idle ==
    /\ world = None /\ pc = <<>> /\ acc = <<>> /\ tmp = <<>> /\ mu = {}
    /\ gw = <<>> /\ visits = <<>> /\ result = None

InitResolver ==
    /\ Idle
    /\ rin \in ResolverInputs
    /\ rout = None

Resolve ==
    /\ rin # None /\ rout = None
    /\ rout' = Some(processResource(rin.resource, TestBaseDir, rin.env))
    /\ UNCHANGED <<world, pc, acc, tmp, mu, gw, visits, result, rin>>

NextResolver == Resolve

SpecResolver == InitResolver /\ [][NextResolver]_vars

----------------------------------------------------------------------------
(* Specification of the sanitizer alone: a name, sanitized and sanitized again *)

\* the three bytes of a Chinese character in UTF-8
Hanzi == <<"E9", "AB", "98">>

Pad(c, n) == [i \in 1..n |-> c]

NameHeads == {<<>>, <<" ">>, <<".", " ">>, <<"/">>, <<"a", ":">>, Hanzi}
NameTails == {<<>>, <<" ">>, <<" ", ".">>, <<"?", " ">>, <<".", "b">>, <<" ", ".", " ", "b">>, Hanzi}
FillLengths == {0, 1} \cup ((MaxNameLen - 4)..(MaxNameLen + MaxOver))

\* names around the length limit, with banned characters, spaces and dots at
\* both ends and where the truncation cuts
SanitizerInputs ==
    {h \o Pad("a", n) \o t : h \in NameHeads, n \in FillLengths, t \in NameTails}

InitSanitizer ==
    /\ Idle
    /\ rin \in {[name |-> n] : n \in SanitizerInputs}
    /\ rout = <<>>

\* sanitizeFileName applied to the name, then to its own output
Sanitize ==
    /\ Len(rout) < 2
    /\ rout' = Append(rout, sanitizeFileName(IF rout = <<>> THEN rin.name ELSE rout[Len(rout)]))
    /\ UNCHANGED <<world, pc, acc, tmp, mu, gw, visits, result, rin>>

NextSanitizer == Sanitize

SpecSanitizer == InitSanitizer /\ [][NextSanitizer]_vars

----------------------------------------------------------------------------
(* Locator of the course ID *)

KeyCourseUnderscore == <<"c", "o", "u", "r", "s", "e", "_", "i", "d", "=">>
KeyCourseCamel == <<"c", "o", "u", "r", "s", "e", "I", "d", "=">>
KeyCoursePath == <<"/", "c", "o", "u", "r", "s", "e", "/">>

DigitChars == Range(Digits)

\* the text of s from position i on
From(s, i) == SubSeq(s, i, Len(s))

\* literal lit stands at position i of s and at least one digit follows it
MatchAt(s, i, lit) ==
    /\ i + Len(lit) <= Len(s)
    /\ SubSeq(s, i, i + Len(lit) - 1) = lit
    /\ s[i + Len(lit)] \in DigitChars

\* regexp.FindStringSubmatch of  (?:lit1|lit2|...)(\d+) : the leftmost match, its digits
FindDigitsAfter(s, lits) ==
    LET hits == {i \in 1..Len(s) : \E lit \in lits : MatchAt(s, i, lit)}
    IN  IF hits = {} THEN None
        ELSE LET i   == CHOOSE j \in hits : \A k \in hits : j <= k
                 lit == CHOOSE l \in lits : MatchAt(s, i, l)
             IN  Some(ClassPrefix(From(s, i + Len(lit)), DigitChars))

\* variant with one pattern for the three forms, whose leftmost match wins
\* (C30 depends on the parameter pattern being tried first)
extractCourseIDLeftmostForm(URL) ==
    LET byAny == FindDigitsAfter(URL, {KeyCourseUnderscore, KeyCourseCamel, KeyCoursePath})
    IN  IF byAny # None THEN [id |-> byAny[1], err |-> ""]
        ELSE [id |-> <<>>, err |-> "course ID not found in URL"]

\* variant that tries the path form before the parameter forms (C14 depends on
\* the order of the two patterns)
extractCourseIDPathFirst(URL) ==
    LET byParam == FindDigitsAfter(URL, {KeyCourseUnderscore, KeyCourseCamel})
        byPath  == FindDigitsAfter(URL, {KeyCoursePath})
    IN  IF byPath # None THEN [id |-> byPath[1], err |-> ""]
        ELSE IF byParam # None THEN [id |-> byParam[1], err |-> ""]
        ELSE [id |-> <<>>, err |-> "course ID not found in URL"]

\* lines 51-69
extractCourseID(URL) ==
    LET byParam == FindDigitsAfter(URL, {KeyCourseUnderscore, KeyCourseCamel})
        byPath  == FindDigitsAfter(URL, {KeyCoursePath})
    IN  IF byParam # None THEN [id |-> byParam[1], err |-> ""]
        ELSE IF byPath # None THEN [id |-> byPath[1], err |-> ""]
        ELSE [id |-> <<>>, err |-> "course ID not found in URL"]

----------------------------------------------------------------------------
(* Specification of the course-ID locator alone: one URL, one call *)

UrlHead == <<"h", "/", "c", "?">>
DecoyNoEquals == <<"c", "o", "u", "r", "s", "e", "_", "i", "d">>
DecoyPlural == <<"/", "c", "o", "u", "r", "s", "e", "s", "/">>
DecoyCase == <<"C", "o", "u", "r", "s", "e", "I", "d", "=">>
UrlKeys == {KeyCourseUnderscore, KeyCourseCamel, KeyCoursePath, DecoyNoEquals, DecoyPlural, DecoyCase}
UrlNumbers == {<<>>, <<"7">>, <<"1", "7">>, <<"2", "0", "3">>}
UrlPieces == {<<>>} \cup {k \o n : k \in UrlKeys, n \in UrlNumbers}
UrlJoints == {<<"&">>, <<"a">>}

\* URLs with up to two occurrences of the three forms and of look-alikes, with
\* and without digits
LocatorInputs == {UrlHead \o a \o j \o b : a \in UrlPieces, j \in UrlJoints, b \in UrlPieces}

InitLocator ==
    /\ Idle
    /\ rin \in {[url |-> u] : u \in LocatorInputs}
    /\ rout = None

LocateCourseID ==
    /\ rin # None /\ rout = None
    /\ rout' = Some(extractCourseID(rin.url))
    /\ UNCHANGED <<world, pc, acc, tmp, mu, gw, visits, result, rin>>

NextLocator == LocateCourseID

SpecLocator == InitLocator /\ [][NextLocator]_vars

----------------------------------------------------------------------------
(* The remote course: gradations, syllabus trees, resources *)

\* a syllabus node; Slots are PreClassResource, InClassMainResource,
\* InClassAssistResource, AfterClassResource in the order of resourceGroups
Syllabus(name, isResource, children, slots) ==
    [Name |-> name, IsResource |-> isResource, Children |-> children, Slots |-> slots]

NoSlots == <<<<>>, <<>>, <<>>, <<>>>>

\* a gradation of a listing
Gradation(name, id, syllabusID, gSyllabus, epSyllabus, children) ==
    [Name |-> name, ID |-> id, SyllabusID |-> syllabusID,
     GSyllabus |-> gSyllabus, EpSyllabus |-> epSyllabus, Children |-> children]

RECURSIVE PathsOf(_)
\* the positions of the nodes of a syllabus tree, the root being <<>>
PathsOf(node) ==
    {<<>>} \cup UNION {{<<i>> \o q : q \in PathsOf(node.Children[i])} : i \in DOMAIN node.Children}

RECURSIVE NodeAt(_, _)
NodeAt(node, path) ==
    IF path = <<>> THEN node ELSE NodeAt(node.Children[Head(path)], Tail(path))

RECURSIVE GradPathsOf(_)
\* the positions of the gradations of a listing, nested child gradations included
GradPathsOf(list) ==
    UNION {{<<g>>} \cup {<<g>> \o q : q \in GradPathsOf(list[g].Children)} : g \in DOMAIN list}

----------------------------------------------------------------------------
(* Tasks, frames and mutexes of one extraction *)

\* Every goroutine, every traversal frame (the call that owns an allData slice)
\* and every mutex is named by its kind and its place in the course: the path p
\* of the gradation / syllabus node, the resource slot s and the index i.
Id(k, p, s, i) == [k |-> k, p |-> p, s |-> s, i |-> i]

MainT == Id("main", <<>>, 0, 0)          \* the goroutine that called Extract
CourseF == Id("course", <<>>, 0, 0)      \* allData / mu of extract*Course
GradT(g) == Id("grad", <<g>>, 0, 0)      \* goroutine of lines 159-191
ChildT(p) == Id("child", p, 0, 0)        \* goroutine of lines 253-264
SlotT(p, s) == Id("slot", p, s, 0)       \* goroutine of lines 292-303
ResT(p, s, i) == Id("res", p, s, i)      \* goroutine of lines 363-376
NodeF(p) == Id("node", p, 0, 0)          \* allData of extractGStudySyllabus(node p)
KidsM(p) == Id("mukids", p, 0, 0)        \* mu of lines 249
SlotsM(p) == Id("muslots", p, 0, 0)      \* mu of line 284
ListF(p, s) == Id("reslist", p, s, 0)    \* allData of extractResources
EpGradT(g) == Id("epgrad", <<g>>, 0, 0)  \* goroutine of lines 213-235
ItemT(p) == Id("item", p, 0, 0)          \* goroutine of lines 318-348
ItemsF(p) == Id("items", p, 0, 0)        \* allData of extractEpStudySyllabus
ItemsM(p) == Id("muitems", p, 0, 0)      \* mu of line 314
ListM(p, s) == Id("mureslist", p, s, 0)  \* mu of line 359

Parent(p) == SubSeq(p, 1, Len(p) - 1)

Upd(f, x, v) == (x :> v) @@ f

Spawn(f, ts) == [t \in ts |-> "ready"] @@ f

Bump(f, x) == IF x \in DOMAIN f THEN [f EXCEPT ![x] = @ + 1] ELSE Upd(f, x, 1)

CourseID == extractCourseID(world.url).id

\* the answers of the gateway for this course
GStudyAnswer == world.listing
EpStudyAnswer == world.ep
GStudySyllabusAnswer(syllabusID) == world.gsyl[syllabusID]
EpStudySyllabusAnswer(syllabusID) == world.epsyl[syllabusID]

\* the syllabus node at path p: p[1] is the gradation, the rest leads down its tree
NodeOf(p) == NodeAt(GStudySyllabusAnswer(GStudyAnswer[p[1]].SyllabusID), Tail(p))

\* the schema-B item at path p: p[1] the gradation, p[2] the item, the rest its descendants
ItemOf(p) ==
    NodeAt(EpStudySyllabusAnswer(EpStudyAnswer[p[1]].ID)[p[2]], Tail(Tail(p)))

ChildTasks(p) == {ChildT(p \o <<i>>) : i \in DOMAIN NodeOf(p).Children}
\* variant that leaves out the after-class slot (C20 depends on all four
\* resourceGroups of lines 274-282 being walked)
SlotTasksNoAfterClass(p) == {SlotT(p, s) : s \in {x \in 1..3 : NodeOf(p).Slots[x] # <<>>}}

\* lines 274-291: one goroutine for every non-empty resource group
SlotTasks(p) == {SlotT(p, s) : s \in {x \in 1..4 : NodeOf(p).Slots[x] # <<>>}}
ResTasks(p, s) == {ResT(p, s, i) : i \in DOMAIN NodeOf(p).Slots[s]}
SubItemTasks(p) == {ItemT(p \o <<i>>) : i \in DOMAIN ItemOf(p).Children}

\* variant of the join that returns as soon as one branch is done (C5 depends
\* on the join waiting for every sibling)
JoinedAny(ts) == ts = {} \/ \E t \in ts : pc[t] = "done"

\* variant of the join that does not wait at all (C19 depends on wg.Wait())
JoinedAtOnce(ts) == TRUE

\* wg.Wait() returns: every goroutine of ts has run its deferred wg.Done()
Joined(ts) == \A t \in ts : pc[t] = "done"

\* variant without mutual exclusion (C1 depends on the mutex)
CanLockUnguarded(m) == TRUE

\* sync.Mutex.Lock() returns only when nobody holds the mutex
CanLock(m) == m \notin mu

\* variant that reads the slice without taking the mutex (C18 depends on every
\* append being made under the lock)
LockAndReadUnlocked(t, m, f) ==
    /\ mu' = mu
    /\ tmp' = Upd(tmp, t, acc[f])

\* mu.Lock() followed by the read of the slice that append(allData, ...) starts with
LockAndRead(t, m, f) ==
    /\ CanLock(m)
    /\ mu' = mu \cup {m}
    /\ tmp' = Upd(tmp, t, acc[f])

\* variant that appends and keeps the mutex (C31 depends on the mu.Unlock()
\* that follows every append)
AppendAndKeepLock(t, m, f, data) ==
    /\ acc' = [acc EXCEPT ![f] = tmp[t] \o data]
    /\ mu' = mu

\* allData = append(allData, data...) on the slice read, then mu.Unlock()
AppendAndUnlock(t, m, f, data) ==
    /\ acc' = [acc EXCEPT ![f] = tmp[t] \o data]
    /\ mu' = mu \ {m}

\* a descriptor as the accumulators hold it: the pointer's identity is the place
\* src of the resource it was made from
Entry(src, d) == [src |-> src, d |-> d]

\* the one gateway state all resources of a course are resolved against
WalkEnv ==
    [check  |-> CheckOk,
     vr     |-> (VidV :> GoodAnswer) @@ (VidC :> GoodAnswer) @@
                (<<"v", "2">> :> [err |-> FALSE,
                                  List |-> [q \in {SD} |-> [GoodList[SD] EXCEPT !.Available = 0]]]),
     expand |-> [pp \in {ManifestPath(SD)} |-> [err |-> FALSE, urls |-> <<<<"u", "1">>>>]]]

\* the token the gateway refuses to exchange
DeniedToken == <<"t", "9">>

\* the gateway state a resource is resolved against: GLiveCheck (line 415)
\* answers by the token it is called with
WalkEnvFor(resource) ==
    LET loc == extractRoomIDAndToken(resource.LiveUrlPlayBackApp)
    IN  [WalkEnv EXCEPT !.check = IF ~loc.err /\ loc.token = DeniedToken THEN CheckErr ELSE CheckOk]

\* variant that resolves the resources of slot s under a sub-directory of the
\* slot (C26 depends on subDir of lines 274-282 not being used at line 295)
ResolvedUnderSubDir(p, s, i) ==
    processResource(NodeOf(p).Slots[s][i],
                    BaseDir(CourseID, GStudyAnswer[p[1]].Name, NodeOf(p).Name) \o <<Itoa(s)>>,
                    WalkEnvFor(NodeOf(p).Slots[s][i]))

\* processResource for the resource at slot s, index i of node p (line 366)
Resolved(p, s, i) ==
    processResource(NodeOf(p).Slots[s][i],
                    BaseDir(CourseID, GStudyAnswer[p[1]].Name, NodeOf(p).Name),
                    WalkEnvFor(NodeOf(p).Slots[s][i]))

----------------------------------------------------------------------------
(* Gateway client.  A response is what one HTTP exchange gives: whether      *)
(* request.Request returned a response at all, its HTTP status, whether the  *)
(* body holds the session-expired marker, whether the body parses as JSON,   *)
(* the status field of the JSON, and whether result has an "items" field.    *)

StatusOkStudy == 0      \* the g-study and ep-study endpoints
StatusOkVod == 200      \* the glive2-vod endpoints

NoResult(err) == [result |-> FALSE, err |-> err]

\* lines 223-259: the body, or an error; the HTTP status is not looked at
do(resp) ==
    IF ~resp.transport THEN [body |-> FALSE, err |-> "failed to make request"]
    ELSE IF resp.marker THEN [body |-> FALSE, err |-> "login timeout, please check your authentication token"]
    ELSE [body |-> TRUE, err |-> ""]

\* do, json.Unmarshal into APIResponse, the status test
Decode(resp, okStatus) ==
    IF do(resp).err # "" THEN NoResult(do(resp).err)
    ELSE IF ~resp.json THEN NoResult("failed to parse response")
    ELSE IF resp.Status # okStatus THEN NoResult("API error")
    ELSE [result |-> TRUE, err |-> ""]

\* lines 262-280
GStudy(resp) == Decode(resp, StatusOkStudy)

\* lines 283-301
GStudySyllabus(resp) == Decode(resp, StatusOkStudy)

\* lines 304-322
EpStudy(resp) == Decode(resp, StatusOkStudy)

\* lines 325-360
EpStudySyllabus(resp) ==
    IF Decode(resp, StatusOkStudy).err # "" THEN Decode(resp, StatusOkStudy)
    ELSE IF ~resp.items THEN NoResult("no items found in ep syllabus response")
    ELSE [result |-> TRUE, err |-> ""]

\* variant of the quality fetch with the status test of the study endpoints
\* (C15 depends on the 200 of line 377)
VideoResourceZero(resp) == Decode(resp, StatusOkStudy)

\* lines 363-382
VideoResource(resp) == Decode(resp, StatusOkVod)

\* lines 384-406
GLiveCheck(resp) == Decode(resp, StatusOkVod)

GatewayCalls == {"GStudy", "GStudySyllabus", "EpStudy", "EpStudySyllabus", "VideoResource", "GLiveCheck"}

CallGateway(call, resp) ==
    CASE call = "GStudy" -> GStudy(resp)
      [] call = "GStudySyllabus" -> GStudySyllabus(resp)
      [] call = "EpStudy" -> EpStudy(resp)
      [] call = "EpStudySyllabus" -> EpStudySyllabus(resp)
      [] call = "VideoResource" -> VideoResource(resp)
      [] call = "GLiveCheck" -> GLiveCheck(resp)

HttpStatuses == {200, 401}
ApiStatuses == {0, 1, 200, 500}

Responses ==
    [transport : BOOLEAN, http : HttpStatuses, marker : BOOLEAN, json : BOOLEAN,
     Status : ApiStatuses, items : BOOLEAN]

\* what the study endpoints answer during a walk: the result, an API error, or
\* a body with the session-expired marker
Granted == [transport |-> TRUE, http |-> 200, marker |-> FALSE, json |-> TRUE, Status |-> 0, items |-> TRUE]
Refused == [Granted EXCEPT !.Status = 1]
Expired == [Granted EXCEPT !.marker = TRUE]
WalkResponses == {Granted, Refused, Expired}

\* what the walk remembers of a call: it gave a result, it failed on the
\* session-expired marker, or it failed otherwise
Outcome(resp, answer) ==
    IF answer.err = "" THEN "ok"
    ELSE IF resp.transport /\ resp.marker THEN "expired"
    ELSE "fail"

----------------------------------------------------------------------------
(* Specification of the gateway client alone: one call, one response *)

InitGateway ==
    /\ Idle
    /\ rin \in [call : GatewayCalls, resp : Responses]
    /\ rout = None

GatewayCall ==
    /\ rin # None /\ rout = None
    /\ rout' = Some(CallGateway(rin.call, rin.resp))
    /\ UNCHANGED <<world, pc, acc, tmp, mu, gw, visits, result, rin>>

NextGateway == GatewayCall

SpecGateway == InitGateway /\ [][NextGateway]_vars

----------------------------------------------------------------------------
(* Extract and the schema classifier *)

CourseM == Id("mucourse", <<>>, 0, 0)    \* mu of extract*Course (lines 153, 207)
GradationN(p) == Id("gradation", p, 0, 0)  \* a gradation of the remote course, for visits

Returned(data, err) == Some([data |-> data, err |-> err])

\* variant that accepts an empty listing (C4 depends on lines 38-40)
isGStudyCourseEmptyOk(ok) ==
    LET gs == GStudyAnswer
    IN  IF ~ok THEN [is |-> FALSE, err |-> "gateway"]
        ELSE IF Len(gs) = 0 THEN [is |-> FALSE, err |-> ""]
        ELSE [is |-> gs[1].GSyllabus # None /\ gs[1].EpSyllabus = None, err |-> ""]

\* variant that looks at the last gradation instead of the first (C7 depends on
\* the index 0 of line 42)
isGStudyCourseLast(ok) ==
    LET gs == GStudyAnswer
    IN  IF ~ok THEN [is |-> FALSE, err |-> "gateway"]
        ELSE IF Len(gs) = 0 THEN [is |-> FALSE, err |-> "no G-Study course found"]
        ELSE [is |-> gs[Len(gs)].GSyllabus # None /\ gs[Len(gs)].EpSyllabus = None, err |-> ""]

\* isGStudyCourse, given whether the GStudy call succeeded
isGStudyCourse(ok) ==
    LET gs == GStudyAnswer
    IN  IF ~ok THEN [is |-> FALSE, err |-> "gateway"]
        ELSE IF Len(gs) = 0 THEN [is |-> FALSE, err |-> "no G-Study course found"]
        ELSE [is |-> gs[1].GSyllabus # None /\ gs[1].EpSyllabus = None, err |-> ""]

\* lines 72-102: parse the course ID, classify, pick the walker
Extract ==
    /\ pc[MainT] = "start"
    /\ LET cid == extractCourseID(world.url)
       IN  IF cid.err # ""
           THEN /\ result' = Returned(<<>>, cid.err)
                /\ pc' = Upd(pc, MainT, "done")
                /\ UNCHANGED gw
           ELSE \E resp \in WalkResponses :
                LET ok == GStudy(resp).err = ""
                    cls == isGStudyCourse(ok)
                IN  /\ gw' = [gw EXCEPT !.classify = Outcome(resp, GStudy(resp)),
                                        !.schema = IF cls.err # "" THEN ""
                                                   ELSE IF cls.is THEN "A" ELSE "B"]
                    /\ IF cls.err # ""
                       THEN /\ result' = Returned(<<>>, cls.err)
                            /\ pc' = Upd(pc, MainT, "done")
                       ELSE /\ pc' = Upd(pc, MainT, IF cls.is THEN "walkA" ELSE "walkB")
                            /\ UNCHANGED result
    /\ UNCHANGED <<world, acc, tmp, mu, visits, rin, rout>>

----------------------------------------------------------------------------
(* Tree walker, schema A *)

\* lines 147-192: fetch the gradations, start one goroutine for each
extractGStudyCourse ==
    /\ pc[MainT] = "walkA"
    /\ \E resp \in WalkResponses : LET ok == GStudy(resp).err = "" IN
        /\ gw' = [gw EXCEPT !.list = Outcome(resp, GStudy(resp))]
        /\ IF ~ok
           THEN /\ result' = Returned(<<>>, "gateway")
                /\ pc' = Upd(pc, MainT, "done")
                /\ UNCHANGED acc
           ELSE /\ pc' = Spawn(Upd(pc, MainT, "waitA"), {GradT(g) : g \in DOMAIN GStudyAnswer})
                /\ acc' = Upd(acc, CourseF, <<>>)
                /\ UNCHANGED result
    /\ UNCHANGED <<world, tmp, mu, visits, rin, rout>>

\* variant that starts the slot goroutines together with the child goroutines
\* (C21 depends on the wg.Wait() of line 266 standing before the slots)
EnterSyllabusSlotsAtOnce(t, p, v) ==
    /\ visits' = Bump(v, NodeF(p))
    /\ acc' = Upd(acc, NodeF(p), <<>>)
    /\ IF ChildTasks(p) # {}
       THEN pc' = Spawn(Upd(pc, t, "kids"), ChildTasks(p) \cup SlotTasks(p))
       ELSE pc' = Spawn(Upd(pc, t, "slots"), SlotTasks(p))

\* extractGStudySyllabus entered by task t for node p (lines 244-265, or 270-304
\* at once for a node without children); v is visits before the entry
EnterSyllabus(t, p, v) ==
    /\ visits' = Bump(v, NodeF(p))
    /\ acc' = Upd(acc, NodeF(p), <<>>)
    /\ IF ChildTasks(p) # {}
       THEN pc' = Spawn(Upd(pc, t, "kids"), ChildTasks(p))
       ELSE pc' = Spawn(Upd(pc, t, "slots"), SlotTasks(p))

\* variant that fetches the syllabus of every gradation (C29 depends on the
\* test of lines 162-164)
GStudyGradationAlwaysFetch ==
    \E g \in DOMAIN GStudyAnswer :
        LET t == GradT(g)
            v == Bump(visits, GradationN(<<g>>))
        IN  /\ t \in DOMAIN pc /\ pc[t] = "ready"
            /\ \E resp \in WalkResponses : LET ok == GStudySyllabus(resp).err = "" IN
                    /\ gw' = [gw EXCEPT !.syl = Upd(@, <<g>>, Outcome(resp, GStudySyllabus(resp)))]
                    /\ IF ~ok
                       THEN /\ pc' = Upd(pc, t, "done")
                            /\ visits' = v
                            /\ UNCHANGED acc
                       ELSE EnterSyllabus(t, <<g>>, v)
            /\ UNCHANGED <<world, tmp, mu, result, rin, rout>>

\* lines 159-177: the goroutine of gradation g
GStudyGradation ==
    \E g \in DOMAIN GStudyAnswer :
        LET t == GradT(g)
            grad == GStudyAnswer[g]
            v == Bump(visits, GradationN(<<g>>))
        IN  /\ t \in DOMAIN pc /\ pc[t] = "ready"
            /\ IF grad.GSyllabus = None
               THEN /\ pc' = Upd(pc, t, "done")
                    /\ visits' = v
                    /\ UNCHANGED <<acc, gw>>
               ELSE \E resp \in WalkResponses : LET ok == GStudySyllabus(resp).err = "" IN
                    /\ gw' = [gw EXCEPT !.syl = Upd(@, <<g>>, Outcome(resp, GStudySyllabus(resp)))]
                    /\ IF ~ok
                       THEN /\ pc' = Upd(pc, t, "done")
                            /\ visits' = v
                            /\ UNCHANGED acc
                       ELSE EnterSyllabus(t, <<g>>, v)
            /\ UNCHANGED <<world, tmp, mu, result, rin, rout>>

\* lines 253-256: the goroutine of a child node
GStudyChild ==
    \E t \in DOMAIN pc :
        /\ t.k = "child" /\ pc[t] = "ready"
        /\ EnterSyllabus(t, t.p, visits)
        /\ UNCHANGED <<world, tmp, mu, gw, result, rin, rout>>

\* line 266, then lines 270-304: the children have finished, start the slots
GStudyChildrenJoined ==
    \E t \in DOMAIN pc :
        /\ t.k \in {"grad", "child"} /\ pc[t] = "kids"
        /\ Joined(ChildTasks(t.p))
        /\ pc' = Spawn(Upd(pc, t, "slots"), SlotTasks(t.p))
        /\ UNCHANGED <<world, acc, tmp, mu, gw, visits, result, rin, rout>>

\* where the goroutine t that ran extractGStudySyllabus appends its result
WalkerTarget(t) ==
    IF t.k = "grad" THEN [m |-> CourseM, f |-> CourseF]
    ELSE [m |-> KidsM(Parent(t.p)), f |-> NodeF(Parent(t.p))]

\* lines 306-307 and 188 / 261: the slots have finished, the call returns, lock
GStudySyllabusReturn ==
    \E t \in DOMAIN pc :
        /\ t.k \in {"grad", "child"} /\ pc[t] = "slots"
        /\ Joined(SlotTasks(t.p))
        /\ LockAndRead(t, WalkerTarget(t).m, WalkerTarget(t).f)
        /\ pc' = Upd(pc, t, "locked")
        /\ UNCHANGED <<world, acc, gw, visits, result, rin, rout>>

\* lines 189-190 / 262-263, and the deferred wg.Done()
GStudyAppend ==
    \E t \in DOMAIN pc :
        /\ t.k \in {"grad", "child"} /\ pc[t] = "locked"
        /\ AppendAndUnlock(t, WalkerTarget(t).m, WalkerTarget(t).f, acc[NodeF(t.p)])
        /\ pc' = Upd(pc, t, "done")
        /\ UNCHANGED <<world, tmp, gw, visits, result, rin, rout>>

\* lines 292-295 and 357-377: the goroutine of a slot calls extractResources
SlotTask ==
    \E t \in DOMAIN pc :
        /\ t.k = "slot" /\ pc[t] = "ready"
        /\ acc' = Upd(acc, ListF(t.p, t.s), <<>>)
        /\ pc' = Spawn(Upd(pc, t, "res"), ResTasks(t.p, t.s))
        /\ UNCHANGED <<world, tmp, mu, gw, visits, result, rin, rout>>

\* lines 379-380 and 296-300: extractResources returns, lock the node's mu
ResourcesReturn ==
    \E t \in DOMAIN pc :
        /\ t.k = "slot" /\ pc[t] = "res"
        /\ Joined(ResTasks(t.p, t.s))
        /\ LockAndRead(t, SlotsM(t.p), NodeF(t.p))
        /\ pc' = Upd(pc, t, "locked")
        /\ UNCHANGED <<world, acc, gw, visits, result, rin, rout>>

\* variant in which one failing resource makes extractResources fail, so that
\* the slot goroutine returns at line 297 without appending (C6 depends on
\* extractResources swallowing the failure)
SlotDataOrAbort(p, s) ==
    IF \E i \in DOMAIN NodeOf(p).Slots[s] : Resolved(p, s, i).err THEN <<>> ELSE acc[ListF(p, s)]

\* lines 295-298: what the slot goroutine got from extractResources and appends
SlotData(p, s) == acc[ListF(p, s)]

\* lines 301-302
SlotAppend ==
    \E t \in DOMAIN pc :
        /\ t.k = "slot" /\ pc[t] = "locked"
        /\ AppendAndUnlock(t, SlotsM(t.p), NodeF(t.p), SlotData(t.p, t.s))
        /\ pc' = Upd(pc, t, "done")
        /\ UNCHANGED <<world, tmp, gw, visits, result, rin, rout>>

\* what the goroutine of a resource does with the outcome of processResource
\* (lines 366-371): TRUE when it goes on to append
Kept(r) == ~r.err /\ r.data # None

\* lines 363-371: the goroutine of one resource
ResourceTask ==
    \E t \in DOMAIN pc :
        /\ t.k = "res" /\ pc[t] = "ready"
        /\ pc' = Upd(pc, t, IF Kept(Resolved(t.p, t.s, t.i)) THEN "have" ELSE "done")
        /\ UNCHANGED <<world, acc, tmp, mu, gw, visits, result, rin, rout>>

\* line 372
ResourceLock ==
    \E t \in DOMAIN pc :
        /\ t.k = "res" /\ pc[t] = "have"
        /\ LockAndRead(t, ListM(t.p, t.s), ListF(t.p, t.s))
        /\ pc' = Upd(pc, t, "locked")
        /\ UNCHANGED <<world, acc, gw, visits, result, rin, rout>>

\* lines 373-374
ResourceAppend ==
    \E t \in DOMAIN pc :
        /\ t.k = "res" /\ pc[t] = "locked"
        /\ AppendAndUnlock(t, ListM(t.p, t.s), ListF(t.p, t.s),
                           <<Entry(t, Resolved(t.p, t.s, t.i).data[1])>>)
        /\ pc' = Upd(pc, t, "done")
        /\ UNCHANGED <<world, tmp, gw, visits, result, rin, rout>>

\* variant that reports a failed gradation together with the list collected
\* from the others (C3 depends on branch failures not reaching the caller)
GStudyCourseReturnPartial ==
    /\ pc[MainT] = "waitA"
    /\ Joined({GradT(g) : g \in DOMAIN GStudyAnswer})
    /\ result' = Returned(acc[CourseF],
                          IF \E g \in DOMAIN gw.syl : gw.syl[g] # "ok" THEN "gateway" ELSE "")
    /\ pc' = Upd(pc, MainT, "done")
    /\ UNCHANGED <<world, acc, tmp, mu, gw, visits, rin, rout>>

\* lines 194-195 and 104-108: all gradations have finished, Extract returns
GStudyCourseReturn ==
    /\ pc[MainT] = "waitA"
    /\ Joined({GradT(g) : g \in DOMAIN GStudyAnswer})
    /\ result' = Returned(acc[CourseF], "")
    /\ pc' = Upd(pc, MainT, "done")
    /\ UNCHANGED <<world, acc, tmp, mu, gw, visits, rin, rout>>

----------------------------------------------------------------------------
(* Tree walker, schema B *)

EpGradationN(p) == Id("epgradation", p, 0, 0)  \* a gradation of the schema-B listing, for visits

\* lines 384-388
\* variant that maps a flagged item to one descriptor (C32 depends on the empty
\* list of line 387)
extractEpStudyResourcesOne(syllabus, baseDir) == [data |-> <<syllabus>>, err |-> FALSE]

extractEpStudyResources(syllabus, baseDir) == [data |-> <<>>, err |-> FALSE]

\* lines 201-236: fetch the gradations, start one goroutine for each
extractEpStudyCourse ==
    /\ pc[MainT] = "walkB"
    /\ \E resp \in WalkResponses : LET ok == EpStudy(resp).err = "" IN
        /\ gw' = [gw EXCEPT !.list = Outcome(resp, EpStudy(resp))]
        /\ IF ~ok
           THEN /\ result' = Returned(<<>>, "gateway")
                /\ pc' = Upd(pc, MainT, "done")
                /\ UNCHANGED acc
           ELSE /\ pc' = Spawn(Upd(pc, MainT, "waitB"), {EpGradT(g) : g \in DOMAIN EpStudyAnswer})
                /\ acc' = Upd(acc, CourseF, <<>>)
                /\ UNCHANGED result
    /\ UNCHANGED <<world, tmp, mu, visits, rin, rout>>

\* lines 213-227 and 312-349: the goroutine of gradation g fetches the items and
\* starts one goroutine for each
EpGradation ==
    \E g \in DOMAIN EpStudyAnswer :
        LET t == EpGradT(g)
            syllabusID == EpStudyAnswer[g].ID
        IN  /\ t \in DOMAIN pc /\ pc[t] = "ready"
            /\ visits' = Bump(visits, EpGradationN(<<g>>))
            /\ IF syllabusID = <<>>
               THEN /\ pc' = Upd(pc, t, "done")
                    /\ UNCHANGED <<acc, gw>>
               ELSE \E resp \in WalkResponses : LET ok == EpStudySyllabus(resp).err = "" IN
                    /\ gw' = [gw EXCEPT !.syl = Upd(@, <<g>>, Outcome(resp, EpStudySyllabus(resp)))]
                    /\ IF ~ok
                       THEN /\ pc' = Upd(pc, t, "done")
                            /\ UNCHANGED acc
                       ELSE /\ acc' = Upd(acc, ItemsF(<<g>>), <<>>)
                            /\ pc' = Spawn(Upd(pc, t, "items"),
                                           {ItemT(<<g, i>>) :
                                               i \in DOMAIN EpStudySyllabusAnswer(syllabusID)})
            /\ UNCHANGED <<world, tmp, mu, result, rin, rout>>

\* variant that tests the IsResource flag before the children (C27 depends on
\* the children being walked at lines 322-329, before the test of line 332)
EpItemFlagFirst ==
    \E t \in DOMAIN pc :
        /\ t.k = "item" /\ pc[t] = "ready"
        /\ visits' = Bump(visits, ItemT(t.p))
        /\ IF ItemOf(t.p).IsResource = 0
           THEN /\ pc' = Upd(pc, t, "done")
                /\ UNCHANGED acc
           ELSE IF ItemOf(t.p).Children # <<>>
           THEN /\ acc' = Upd(acc, ItemsF(t.p), <<>>)
                /\ pc' = Spawn(Upd(pc, t, "sub"), SubItemTasks(t.p))
           ELSE /\ pc' = Upd(pc, t, "mid")
                /\ UNCHANGED acc
        /\ UNCHANGED <<world, tmp, mu, gw, result, rin, rout>>

\* lines 318-323: the goroutine of one item; with children it calls
\* extractEpStudySyllabus for them
EpItem ==
    \E t \in DOMAIN pc :
        /\ t.k = "item" /\ pc[t] = "ready"
        /\ visits' = Bump(visits, ItemT(t.p))
        /\ IF ItemOf(t.p).Children # <<>>
           THEN /\ acc' = Upd(acc, ItemsF(t.p), <<>>)
                /\ pc' = Spawn(Upd(pc, t, "sub"), SubItemTasks(t.p))
           ELSE /\ pc' = Upd(pc, t, "mid")
                /\ UNCHANGED acc
        /\ UNCHANGED <<world, tmp, mu, gw, result, rin, rout>>

\* lines 351-352 and 324-325: the call for the children returns, lock
EpItemChildrenReturn ==
    \E t \in DOMAIN pc :
        /\ t.k = "item" /\ pc[t] = "sub"
        /\ Joined(SubItemTasks(t.p))
        /\ LockAndRead(t, ItemsM(Parent(t.p)), ItemsF(Parent(t.p)))
        /\ pc' = Upd(pc, t, "locked1")
        /\ UNCHANGED <<world, acc, gw, visits, result, rin, rout>>

\* lines 326-327
EpItemAppendChildren ==
    \E t \in DOMAIN pc :
        /\ t.k = "item" /\ pc[t] = "locked1"
        /\ AppendAndUnlock(t, ItemsM(Parent(t.p)), ItemsF(Parent(t.p)), acc[ItemsF(t.p)])
        /\ pc' = Upd(pc, t, "mid")
        /\ UNCHANGED <<world, tmp, gw, visits, result, rin, rout>>

\* lines 332-345: an item that is no resource ends; otherwise map it and lock
EpItemResource ==
    \E t \in DOMAIN pc :
        /\ t.k = "item" /\ pc[t] = "mid"
        /\ IF ItemOf(t.p).IsResource = 0
           THEN /\ pc' = Upd(pc, t, "done")
                /\ UNCHANGED <<tmp, mu>>
           ELSE /\ ~extractEpStudyResources(ItemOf(t.p), <<>>).err
                /\ LockAndRead(t, ItemsM(Parent(t.p)), ItemsF(Parent(t.p)))
                /\ pc' = Upd(pc, t, "locked2")
        /\ UNCHANGED <<world, acc, gw, visits, result, rin, rout>>

\* lines 346-347
EpItemAppendResources ==
    \E t \in DOMAIN pc :
        /\ t.k = "item" /\ pc[t] = "locked2"
        /\ AppendAndUnlock(t, ItemsM(Parent(t.p)), ItemsF(Parent(t.p)),
                           extractEpStudyResources(ItemOf(t.p), <<>>).data)
        /\ pc' = Upd(pc, t, "done")
        /\ UNCHANGED <<world, tmp, gw, visits, result, rin, rout>>

\* lines 351-352 and 228-232: the items of a gradation have finished, lock
EpSyllabusReturn ==
    \E t \in DOMAIN pc :
        /\ t.k = "epgrad" /\ pc[t] = "items"
        /\ Joined({ItemT(t.p \o <<i>>) : i \in DOMAIN EpStudySyllabusAnswer(EpStudyAnswer[t.p[1]].ID)})
        /\ LockAndRead(t, CourseM, CourseF)
        /\ pc' = Upd(pc, t, "locked")
        /\ UNCHANGED <<world, acc, gw, visits, result, rin, rout>>

\* lines 233-234
EpAppend ==
    \E t \in DOMAIN pc :
        /\ t.k = "epgrad" /\ pc[t] = "locked"
        /\ AppendAndUnlock(t, CourseM, CourseF, acc[ItemsF(t.p)])
        /\ pc' = Upd(pc, t, "done")
        /\ UNCHANGED <<world, tmp, gw, visits, result, rin, rout>>

\* variant that reports the failure of a gradation's item fetch to the caller
\* (C28 depends on the bare return of lines 222-224)
EpStudyCourseReturnFailing ==
    /\ pc[MainT] = "waitB"
    /\ Joined({EpGradT(g) : g \in DOMAIN EpStudyAnswer})
    /\ result' = IF \E g \in DOMAIN gw.syl : gw.syl[g] # "ok"
                 THEN Returned(<<>>, "gateway")
                 ELSE Returned(acc[CourseF], "")
    /\ pc' = Upd(pc, MainT, "done")
    /\ UNCHANGED <<world, acc, tmp, mu, gw, visits, rin, rout>>

\* lines 238-239 and 104-108
EpStudyCourseReturn ==
    /\ pc[MainT] = "waitB"
    /\ Joined({EpGradT(g) : g \in DOMAIN EpStudyAnswer})
    /\ result' = Returned(acc[CourseF], "")
    /\ pc' = Upd(pc, MainT, "done")
    /\ UNCHANGED <<world, acc, tmp, mu, gw, visits, rin, rout>>

----------------------------------------------------------------------------
(* The courses the extraction is run on *)

GoodURL == <<"h", "/", "c", "?">> \o KeyCourseUnderscore \o <<"1", "7">>
BadURL == <<"h", "/", "i", "n", "v", "a", "l", "i", "d">>

\* resources, by what the resolver makes of them under WalkEnv
RVideo == BaseResource                                        \* a descriptor
RNoStream == [BaseResource EXCEPT !.VideoID = <<"v", "2">>]    \* error: no usable stream
RApiErr == [BaseResource EXCEPT !.VideoID = <<"v", "3">>]      \* error: quality fetch fails
RSkip == [BaseResource EXCEPT !.Discriminator = "audio"]      \* nothing, no error
RDoc == [BaseResource EXCEPT !.Discriminator = "lecture_note", !.Path = <<"p">>]
RLive == [BaseResource EXCEPT !.Discriminator = "live_new", !.LiveUrlPlayBackApp = GoodLink]
RLiveBad == [BaseResource EXCEPT !.Discriminator = "live_new"]     \* nothing: the link does not parse
RLiveDenied == [RLive EXCEPT !.LiveUrlPlayBackApp.token = DeniedToken]   \* nothing: the exchange fails
ResourceKinds == {RVideo, RNoStream, RApiErr, RSkip, RDoc, RLive, RLiveBad, RLiveDenied}

OneSlot(rs) == <<rs, <<>>, <<>>, <<>>>>
Leaf(name, slots) == Syllabus(name, 0, <<>>, slots)

LeafV == Leaf(<<"n">>, OneSlot(<<RVideo>>))
LeafN == Leaf(<<"n">>, OneSlot(<<RNoStream>>))
\* a root with one child, a video in each
Deep2 == Syllabus(<<"r">>, 0, <<Leaf(<<"k">>, OneSlot(<<RVideo>>))>>, OneSlot(<<RVideo>>))

SidOf(g) == <<"s">> \o Itoa(g)
NestedSid(g) == SidOf(g) \o <<"c">>

\* The schema-A listing described by descs, a sequence of [kind, tree]:
\*   "A"    a gradation with a schema-A syllabus root only
\*   "AB"   with a schema-A root and a (non-nil, empty) schema-B list
\*   "B"    with a schema-B list only
\*   "none" with neither
\*   "nest" as "A", and with one nested child gradation that has a syllabus of its own
ListingOf(descs) ==
    [g \in DOMAIN descs |->
        Gradation(<<"G">> \o Itoa(g), Itoa(g), SidOf(g),
                  IF descs[g].kind \in {"A", "AB", "nest"} THEN Some(descs[g].tree) ELSE None,
                  CASE descs[g].kind = "AB" -> Some(<<>>)
                    [] descs[g].kind = "B" -> Some(<<LeafV>>)
                    [] OTHER -> None,
                  IF descs[g].kind = "nest"
                  THEN <<Gradation(<<"G", "c">>, <<"9">>, NestedSid(g), Some(LeafV), None, <<>>)>>
                  ELSE <<>>)]

\* what GStudySyllabus answers, by syllabus ID
SyllabiOf(descs) ==
    [sid \in {SidOf(g) : g \in DOMAIN descs} \cup {NestedSid(g) : g \in DOMAIN descs} |->
        IF \E g \in DOMAIN descs : SidOf(g) = sid
        THEN descs[CHOOSE g \in DOMAIN descs : SidOf(g) = sid].tree
        ELSE LeafV]

EidOf(g) == <<"e">> \o Itoa(g)

\* The schema-B listing described by edescs, a sequence of [hasID, items]
EpListingOf(edescs) ==
    [g \in DOMAIN edescs |->
        Gradation(<<"E">> \o Itoa(g), IF edescs[g].hasID THEN EidOf(g) ELSE <<>>, <<>>,
                  None, None, <<>>)]

EpSyllabiOf(edescs) ==
    [id \in {EidOf(g) : g \in DOMAIN edescs} |->
        edescs[CHOOSE g \in DOMAIN edescs : EidOf(g) = id].items]

Course(url, descs, edescs) ==
    [url |-> url, listing |-> ListingOf(descs), gsyl |-> SyllabiOf(descs),
     ep |-> EpListingOf(edescs), epsyl |-> EpSyllabiOf(edescs)]

SeqsUpTo(S, n) == UNION {[1..k -> S] : k \in 0..n}

D(kind, tree) == [kind |-> kind, tree |-> tree]
E(hasID, items) == [hasID |-> hasID, items |-> items]

Item(isResource, children) == Syllabus(<<"i">>, isResource, children, NoSlots)

EpSmall == <<E(TRUE, <<Item(1, <<>>)>>)>>

\* listings of up to MaxGrad gradations of every kind, small trees
GradationCourses ==
    {Course(GoodURL, descs, EpSmall) :
        descs \in SeqsUpTo({D("A", LeafV), D("A", Deep2), D("AB", LeafV), D("B", LeafV),
                            D("none", LeafV), D("nest", LeafV)}, MaxGrad)}

\* one gradation whose root has up to MaxKids children
ChildrenCourses ==
    {Course(GoodURL, <<D("A", Syllabus(<<"r">>, 0, kids, slots))>>, EpSmall) :
        kids \in SeqsUpTo({LeafV, LeafN}, MaxKids), slots \in {NoSlots, OneSlot(<<RVideo>>)}}

\* one gradation, one node, every filling of the four slots
SlotCourses ==
    {Course(GoodURL, <<D("A", Leaf(<<"n">>, slots))>>, EpSmall) :
        slots \in [1..4 -> {<<>>, <<RVideo>>, <<RNoStream>>}]}

\* one gradation, one node, one slot of up to MaxRes resources of every kind
ResourceCourses ==
    {Course(GoodURL, <<D("A", Leaf(<<"n">>, OneSlot(rs)))>>, EpSmall) :
        rs \in SeqsUpTo(ResourceKinds, MaxRes)}

\* schema-B courses: up to MaxGrad gradations, items with and without children
EpCourses ==
    {Course(GoodURL, <<D(kind, LeafV)>>, edescs) :
        kind \in {"B", "AB"},
        edescs \in SeqsUpTo({E(FALSE, <<>>), E(TRUE, <<Item(1, <<>>)>>),
                             E(TRUE, <<Item(0, <<Item(1, <<>>)>>)>>)}, MaxGrad)}
    \cup
    {Course(GoodURL, <<D("B", LeafV)>>, <<E(TRUE, items)>>) :
        items \in SeqsUpTo({Item(0, <<>>), Item(1, <<>>), Item(1, <<Item(0, <<>>)>>)}, MaxKids)}

Courses ==
    {Course(BadURL, <<D("A", LeafV)>>, EpSmall)} \cup GradationCourses \cup ChildrenCourses
    \cup SlotCourses \cup ResourceCourses \cup EpCourses

----------------------------------------------------------------------------
(* Specification of one extraction *)

Init ==
    /\ world \in Courses
    /\ pc = (MainT :> "start")
    /\ acc = <<>>
    /\ tmp = <<>>
    /\ mu = {}
    /\ gw = [classify |-> "", schema |-> "", list |-> "", syl |-> <<>>]
    /\ visits = <<>>
    /\ result = None
    /\ rin = None
    /\ rout = None

Next ==
    \/ Extract
    \/ extractGStudyCourse
    \/ GStudyGradation
    \/ GStudyChild
    \/ GStudyChildrenJoined
    \/ GStudySyllabusReturn
    \/ GStudyAppend
    \/ SlotTask
    \/ ResourcesReturn
    \/ SlotAppend
    \/ ResourceTask
    \/ ResourceLock
    \/ ResourceAppend
    \/ GStudyCourseReturn
    \/ extractEpStudyCourse
    \/ EpGradation
    \/ EpItem
    \/ EpItemChildrenReturn
    \/ EpItemAppendChildren
    \/ EpItemResource
    \/ EpItemAppendResources
    \/ EpSyllabusReturn
    \/ EpAppend
    \/ EpStudyCourseReturn

Spec == Init /\ [][Next]_vars

----------------------------------------------------------------------------
(* Specification of two Extract calls on the registered extractor.  init     *)
(* registers one extractor value (lines 18-20), so both calls have the same  *)
(* receiver e.  A client is named by the call whose NewClient built it; it   *)
(* carries the GAODUN_AUTH_TOKEN that call found in the environment.  The    *)
(* calls run in any interleaving, one after the other included.  A read of   *)
(* e.api that races with the other call's write gives the old or the new     *)
(* value, which is what the interleaving of the two steps gives.             *)

Calls == {1, 2}
Tokens == {"valid", "stale"}
NoCall == 0     \* the writer of a field nobody has written: e.api is nil

\* the outcome of a gateway call made through client k
Through(k) == IF world.token[k] = "valid" THEN "ok" ELSE "fail"

\* the result of a call from the outcomes of its three gateway calls: an
\* error of the classification or of the listing is returned (lines 86-88,
\* 104-106), a failed syllabus fetch leaves its gradation out (lines 166-174)
ResultFrom(classify, list, syllabus) ==
    IF classify = "fail" \/ list = "fail" THEN [err |-> "gateway", n |-> 0]
    ELSE [err |-> "", n |-> IF syllabus = "ok" THEN 1 ELSE 0]

\* the result of call c when it is the only call on the extractor
Alone(c) == ResultFrom(Through(c), Through(c), Through(c))

InitShared ==
    /\ world \in [token : [Calls -> Tokens]]
    /\ pc = [c \in Calls |-> "start"]
    /\ gw = [api |-> NoCall, option |-> NoCall, request |-> NoCall]
    /\ visits = [c \in Calls |-> <<>>]
    /\ result = [c \in Calls |-> None]
    /\ acc = <<>> /\ tmp = <<>> /\ mu = {} /\ rin = None /\ rout = None

\* lines 74-82: the writes of e.api, e.option and the request options
SharedExtract(c) ==
    /\ pc[c] = "start"
    /\ gw' = [api |-> c, option |-> c, request |-> c]
    /\ pc' = [pc EXCEPT ![c] = "classify"]
    /\ UNCHANGED <<world, acc, tmp, mu, visits, result, rin, rout>>

\* a gateway call of call c: it reads e.api, and request.Request reads the
\* request options
SharedCall(c, next) ==
    /\ visits' = [visits EXCEPT ![c] = Append(@, [api |-> gw.api, request |-> gw.request])]
    /\ pc' = [pc EXCEPT ![c] = next]
    /\ UNCHANGED <<world, acc, tmp, mu, gw, result, rin, rout>>

\* line 33, called at line 86
SharedClassify(c) ==
    /\ pc[c] = "classify"
    /\ SharedCall(c, "list")

\* lines 147 and 201
SharedList(c) ==
    /\ pc[c] = "list"
    /\ SharedCall(c, "syllabus")

\* lines 166 and 221, in the goroutine of a gradation
SharedSyllabus(c) ==
    /\ pc[c] = "syllabus"
    /\ SharedCall(c, "return")

\* line 108 (or 87, 105)
SharedReturn(c) ==
    /\ pc[c] = "return"
    /\ result' = [result EXCEPT ![c] =
            Some(ResultFrom(Through(visits[c][1].api), Through(visits[c][2].api),
                            Through(visits[c][3].api)))]
    /\ pc' = [pc EXCEPT ![c] = "done"]
    /\ UNCHANGED <<world, acc, tmp, mu, gw, visits, rin, rout>>

NextShared ==
    \E c \in Calls :
        \/ SharedExtract(c)
        \/ SharedClassify(c)
        \/ SharedList(c)
        \/ SharedSyllabus(c)
        \/ SharedReturn(c)

SpecShared == InitShared /\ [][NextShared]_vars

----------------------------------------------------------------------------
(* Specification of one extraction under a fair scheduler: as long as some   *)
(* goroutine can take a step, a step is taken.  Every gateway call and every *)
(* manifest expansion is part of the step that issues it, so it returns.     *)

\* courses that between them take every path of the two walkers
FairCourses ==
    {Course(BadURL, <<D("A", LeafV)>>, EpSmall),
     Course(GoodURL, <<D("A", Syllabus(<<"r">>, 0, <<Leaf(<<"k">>, NoSlots)>>, OneSlot(<<RApiErr>>))),
                       D("none", LeafV)>>, EpSmall),
     Course(GoodURL, <<D("A", Leaf(<<"n">>, OneSlot(<<RDoc, RApiErr>>))), D("A", Leaf(<<"m">>, NoSlots))>>,
            EpSmall),
     Course(GoodURL, <<D("B", LeafV)>>,
            <<E(TRUE, <<Item(1, <<Item(0, <<>>)>>), Item(0, <<>>)>>), E(FALSE, <<>>)>>)}

InitFair ==
    /\ world \in FairCourses
    /\ pc = (MainT :> "start")
    /\ acc = <<>>
    /\ tmp = <<>>
    /\ mu = {}
    /\ gw = [classify |-> "", schema |-> "", list |-> "", syl |-> <<>>]
    /\ visits = <<>>
    /\ result = None
    /\ rin = None /\ rout = None

SpecFair == InitFair /\ [][Next]_vars /\ WF_vars(Next)

----------------------------------------------------------------------------
(* What the claims speak about *)

Finished == result # None
Res == result[1]

\* the syllabus tree of top-level gradation g
TreeOfGradation(g) == GStudySyllabusAnswer(GStudyAnswer[g].SyllabusID)

\* the places of all resources in the tree of gradation g
ResourcesOf(g) ==
    UNION {UNION {{ResT(<<g>> \o q, s, i) : i \in DOMAIN NodeAt(TreeOfGradation(g), q).Slots[s]} :
                    s \in 1..4} : q \in PathsOf(TreeOfGradation(g))}

Fetched(g) == <<g>> \in DOMAIN gw.syl /\ gw.syl[<<g>>] = "ok"

\* how often the descriptor made from the resource at place x occurs in list
Occurrences(list, x) == Cardinality({k \in DOMAIN list : list[k].src = x})

\* how often entry e occurs in list
CountIn(list, e) == Cardinality({k \in DOMAIN list : list[k] = e})

\* the list a frame returned, empty when the frame never started
ReturnedBy(f) == IF f \in DOMAIN acc THEN acc[f] ELSE <<>>

----------------------------------------------------------------------------
(* C1..C10 *)

\* the branches whose lists are merged into the accumulator of a returned call
ResourceBranches(p, s) ==
    [i \in DOMAIN NodeOf(p).Slots[s] |->
        IF Kept(Resolved(p, s, i)) THEN <<Entry(ResT(p, s, i), Resolved(p, s, i).data[1])>> ELSE <<>>]
NodeBranches(p) ==
    [c \in DOMAIN NodeOf(p).Children |-> ReturnedBy(NodeF(p \o <<c>>))]
    \o [s \in 1..4 |-> ReturnedBy(ListF(p, s))]
CourseBranches ==
    [g \in DOMAIN GStudyAnswer |-> IF Fetched(g) THEN ReturnedBy(NodeF(<<g>>)) ELSE <<>>]

\* list holds exactly what the branches contributed: as many descriptors as the
\* branches' lists hold together, and each of them as often as the branches do
ExactMerge(list, branches) ==
    /\ Len(list) = SumSeq([b \in DOMAIN branches |-> Len(branches[b])])
    /\ \A e \in Range(list) \cup UNION {Range(branches[b]) : b \in DOMAIN branches} :
          CountIn(list, e) = SumSeq([b \in DOMAIN branches |-> CountIn(branches[b], e)])

\* C1: aggregation is count-exact under every interleaving.  Whenever a call has
\* passed its join, its list holds exactly the descriptors its branches
\* contributed: extractResources those of its resources, extractGStudySyllabus
\* those of its children and slots, extractGStudyCourse those of its gradations;
\* none is lost and none duplicated.
C1_CountExact ==
    /\ \A t \in DOMAIN pc :
          /\ (t.k = "slot" /\ pc[t] \in {"locked", "done"})
                => ExactMerge(acc[ListF(t.p, t.s)], ResourceBranches(t.p, t.s))
          /\ (t.k \in {"grad", "child"} /\ pc[t] \in {"locked", "done"} /\ NodeF(t.p) \in DOMAIN acc)
                => ExactMerge(acc[NodeF(t.p)], NodeBranches(t.p))
    /\ (Finished /\ Res.err = "" /\ gw.schema = "A") => ExactMerge(Res.data, CourseBranches)

\* C1 witness: Extract has returned the merge of two gradations that contributed
\* different numbers of descriptors, one of them two
C1_Witness ==
    /\ Finished /\ Res.err = "" /\ gw.schema = "A"
    /\ \E g, h \in DOMAIN GStudyAnswer :
          /\ Fetched(g) /\ Fetched(h)
          /\ Len(ReturnedBy(NodeF(<<g>>))) = 2 /\ Len(ReturnedBy(NodeF(<<h>>))) = 1
    /\ Len(Res.data) = 3

Visits(n) == IF n \in DOMAIN visits THEN visits[n] ELSE 0

\* C2: during one extraction every node of the remote course tree is visited
\* exactly once: every gradation of the listing, nested child gradations
\* included, and every syllabus node at any depth of every fetched tree.
C2_EveryNodeVisitedOnce ==
    (Finished /\ Res.err = "" /\ gw.schema = "A") =>
        /\ \A gp \in GradPathsOf(GStudyAnswer) : Visits(GradationN(gp)) = 1
        /\ \A g \in DOMAIN GStudyAnswer : Fetched(g) =>
              \A q \in PathsOf(TreeOfGradation(g)) : Visits(NodeF(<<g>> \o q)) = 1

\* what remains true of the code (not the claim): top-level gradations and the
\* syllabus nodes of fetched trees are visited exactly once
C2_TopLevelVisitedOnce ==
    (Finished /\ Res.err = "" /\ gw.schema = "A") =>
        /\ \A g \in DOMAIN GStudyAnswer : Visits(GradationN(<<g>>)) = 1
        /\ \A g \in DOMAIN GStudyAnswer : Fetched(g) =>
              \A q \in PathsOf(TreeOfGradation(g)) : Visits(NodeF(<<g>> \o q)) = 1

\* the resources of the whole course that resolve to a descriptor, in fetched trees
Extractable ==
    {x \in UNION {ResourcesOf(g) : g \in {h \in DOMAIN GStudyAnswer : Fetched(h)}} :
        Kept(Resolved(x.p, x.s, x.i))}

\* C3: Extract returns a list (possibly empty) and no error, or an error and a
\* nil list, never a non-empty list with an error; an extraction that got its
\* gradations and found no extractable resource returns the empty list and no error.
C3_ListOrError ==
    Finished =>
        /\ Res.err # "" => Res.data = <<>>
        /\ (gw.list = "ok" /\ (gw.schema = "A" => Extractable = {}))
              => (Res.err = "" /\ Res.data = <<>>)

\* C3 witness: a schema-A course with a fetched gradation that holds resources,
\* none of them extractable, has returned
C3_Witness ==
    /\ Finished /\ gw.schema = "A" /\ gw.list = "ok"
    /\ \E g \in DOMAIN GStudyAnswer : Fetched(g) /\ ResourcesOf(g) # {}
    /\ Extractable = {}
    /\ Res = [data |-> <<>>, err |-> ""]

\* C4: Extract returns a top-level error exactly when the URL carries no course
\* ID, the classifier's listing fails or is empty, or the walker's top-level
\* gradation fetch fails; no failure below that produces one.
C4_ErrorExactly ==
    Finished =>
        (Res.err # "" <=>
            \/ world.url = BadURL
            \/ gw.classify \in {"fail", "expired"}
            \/ (gw.classify = "ok" /\ Len(GStudyAnswer) = 0)
            \/ gw.list \in {"fail", "expired"})

\* C4 witness: the walker's own gradation fetch failed after a successful
\* classification, and Extract returned an error
C4_Witness ==
    /\ Finished /\ Res.err # ""
    /\ gw.classify = "ok" /\ gw.schema # "" /\ gw.list = "fail"

\* the descriptors of list that come from gradation g
FromGradation(list, g) == SelectSeq(list, LAMBDA e : e.src.p[1] = g)

\* the places of the items of schema-B gradation g, at any depth
ItemsOf(g) ==
    UNION {{<<g, i>> \o q : q \in PathsOf(EpStudySyllabusAnswer(EpStudyAnswer[g].ID)[i])} :
              i \in DOMAIN EpStudySyllabusAnswer(EpStudyAnswer[g].ID)}

\* C5: sibling gradations are independent.  A gradation whose syllabus fetch
\* failed (the only step of a gradation's goroutine that can fail: the walk
\* below it returns no error) contributes nothing; every other gradation
\* contributes exactly the descriptors of its own tree, each once, whatever
\* happened to its siblings.  Under schema B, where no item yields a
\* descriptor, every gradation whose fetch succeeded is still walked in full.
C5_SiblingsIndependent ==
    /\ (Finished /\ Res.err = "" /\ gw.schema = "A") =>
          \A g \in DOMAIN GStudyAnswer :
              LET mine == FromGradation(Res.data, g)
              IN  IF Fetched(g)
                  THEN /\ \A x \in ResourcesOf(g) :
                             Occurrences(mine, x) = IF Kept(Resolved(x.p, x.s, x.i)) THEN 1 ELSE 0
                       /\ \A k \in DOMAIN mine : mine[k].src \in ResourcesOf(g)
                  ELSE mine = <<>>
    /\ (Finished /\ Res.err = "" /\ gw.schema = "B") =>
          \A g \in DOMAIN EpStudyAnswer :
              Fetched(g) => \A q \in ItemsOf(g) : Visits(ItemT(q)) = 1

\* C5 witness: one gradation's syllabus fetch failed and a sibling contributed
C5_Witness ==
    /\ Finished /\ Res.err = "" /\ gw.schema = "A"
    /\ \E g, h \in DOMAIN GStudyAnswer :
          /\ <<g>> \in DOMAIN gw.syl /\ gw.syl[<<g>>] = "fail"
          /\ Fetched(h) /\ FromGradation(Res.data, h) # <<>>

\* the video identifier the video mapping is run with, None when it is not reached
MappedVideoID(resource, env) ==
    CASE resource.Discriminator = "video" -> Some(resource.VideoID)
      [] resource.Discriminator = "live_new"
         /\ ~extractRoomIDAndToken(resource.LiveUrlPlayBackApp).err
         /\ ~env.check.err -> Some(env.check.code)
      [] OTHER -> None

\* the quality list answered for the video has no usable entry
Unusable(env, videoID) ==
    LET a == VideoResourceCall(env, videoID)
    IN  /\ ~a.err
        /\ \A q \in DOMAIN a.List :
              \/ a.List[q].Available # 1
              \/ a.List[q].Path = <<>>
              \/ ExpandManifest(env, a.List[q].Path).err

\* a resource that reaches the video mapping and whose quality fetch fails or
\* whose quality list has no usable stream
HardFailure(resource) ==
    LET id == MappedVideoID(resource, WalkEnvFor(resource))
    IN  /\ id # None
        /\ (VideoResourceCall(WalkEnv, id[1]).err \/ Unusable(WalkEnv, id[1]))

ResourceAt(x) == NodeOf(x.p).Slots[x.s][x.i]

AllFetchedResources == UNION {ResourcesOf(g) : g \in {h \in DOMAIN GStudyAnswer : Fetched(h)}}

\* C6: the hard failure of one resource is an error for the caller of the
\* resolver, and the traversal swallows it: the failing resource contributes
\* nothing, every other resource of the same slot, of the other slots and of the
\* other nodes that resolves contributes its descriptor once, and Extract
\* returns no error.
C6_ResourceFailureSwallowed ==
    (Finished /\ gw.list = "ok" /\ gw.schema = "A") =>
        \A x \in AllFetchedResources : HardFailure(ResourceAt(x)) =>
            /\ Resolved(x.p, x.s, x.i).err
            /\ Occurrences(Res.data, x) = 0
            /\ \A y \in Extractable : Occurrences(Res.data, y) = 1
            /\ Res.err = ""

\* C6 witness: a failing video and a resolving resource in the same slot, and the
\* resolving one is in the returned list
C6_Witness ==
    /\ Finished /\ Res.err = ""
    /\ \E x \in AllFetchedResources, y \in Extractable :
          /\ HardFailure(ResourceAt(x))
          /\ x.p = y.p /\ x.s = y.s
          /\ Occurrences(Res.data, y) = 1

\* C7: the classification depends only on the first gradation of the listing:
\* schema A exactly when it carries a schema-A syllabus root and no schema-B
\* list, schema B otherwise, whatever the later gradations hold.
C7_FirstGradationDecides ==
    gw.schema # "" =>
        (gw.schema = "A" <=>
            (GStudyAnswer[1].GSyllabus # None /\ GStudyAnswer[1].EpSyllabus = None))

\* C7 witness: classified A although the second gradation has a schema-B list
C7_Witness ==
    /\ gw.schema = "A"
    /\ Len(GStudyAnswer) >= 2
    /\ GStudyAnswer[2].EpSyllabus # None

Out == rout[1]

\* C8: the resolver yields at most one descriptor, and for a discriminator other
\* than live_new, video, lecture_note no descriptor, no error and no gateway call.
C8_UnknownDiscriminator ==
    rout # None =>
        /\ Len(Out.data) <= 1
        /\ rin.resource.Discriminator \notin {"live_new", "video", "lecture_note"}
              => (Out.data = None /\ ~Out.err /\ Out.calls = NoCalls)

\* C8 witness: a resource of an unknown kind, whose video ID the gateway knows,
\* has been resolved
C8_Witness ==
    /\ rout # None
    /\ rin.resource.Discriminator = "audio"
    /\ ~VideoResourceCall(rin.env, rin.resource.VideoID).err

RunVideoID == MappedVideoID(rin.resource, rin.env)

NothingUsable == RunVideoID # None /\ Unusable(rin.env, RunVideoID[1])

\* C9: when no quality yields a usable stream the video mapping returns an error
\* and no descriptor; it never returns a video descriptor with an empty stream map.
C9_NoStreamsIsError ==
    rout # None =>
        /\ NothingUsable => (Out.err /\ Out.data = None)
        /\ (Out.data # None /\ Out.data[1].Type = "video") => DOMAIN Out.data[1].Streams # {}

\* C9 witness: a live resource resolved to a code whose two qualities are both
\* unusable, one unavailable and one without a path
C9_Witness ==
    /\ rout # None /\ NothingUsable
    /\ rin.resource.Discriminator = "live_new"
    /\ LET l == VideoResourceCall(rin.env, RunVideoID[1]).List
       IN  DOMAIN l = QualityLabels /\ l[SD].Available = 0 /\ l[HD].Path = <<>> /\ l[HD].Available = 1

\* C10: every video descriptor the video mapping emits has a stream with at
\* least one part, whatever the manifest expansions answer.
C10_StreamHasPart ==
    (rout # None /\ Out.data # None /\ Out.data[1].Type = "video") =>
        \E k \in DOMAIN Out.data[1].Streams : Len(Out.data[1].Streams[k].Parts) >= 1

----------------------------------------------------------------------------
(* C11..C20 *)

\* a live_new resource whose deep link does not parse or whose token the
\* gateway refuses
LiveSkipped(resource) ==
    /\ resource.Discriminator = "live_new"
    /\ LET loc == extractRoomIDAndToken(resource.LiveUrlPlayBackApp)
       IN  loc.err \/ WalkEnvFor(resource).check.err

Safe(name) ==
    /\ \A k \in DOMAIN name : name[k] \notin BannedChars
    /\ Len(name) <= MaxNameLen
    /\ name # <<>> => (name[1] \notin TrimCut /\ name[Len(name)] \notin TrimCut)

\* the destination path of a document with this title, under a gradation and a
\* syllabus node of the same name
PathWith(name) ==
    processNonVideoResource([RDoc EXCEPT !.Title = name],
                            BaseDir(<<"1", "7">>, name, name)).data[1].Title

\* C12: for every input the sanitizer's output has none of the nine banned
\* characters, at most 100 bytes and no space or dot at either end, also after
\* a truncation; so have the gradation, syllabus and title segments of a
\* destination path built from such names.
C12_SanitizedIsSafe ==
    rout # <<>> =>
        /\ Safe(rout[1])
        /\ \A k \in 2..Len(PathWith(rin.name)) : Safe(PathWith(rin.name)[k])

\* C12 witness: a name longer than the limit whose byte 100 is a dot and byte 99
\* a space has been sanitized, to fewer than 100 bytes
C12_Witness ==
    /\ rout # <<>>
    /\ Len(rin.name) > MaxNameLen
    /\ rin.name[1] = "a" /\ rin.name[MaxNameLen] = "." /\ rin.name[MaxNameLen - 1] = " "
    /\ Len(rout[1]) = MaxNameLen - 2
    /\ Len(PathWith(rin.name)) = 4

\* C13: the sanitizer is idempotent, and returns a safe name unchanged.
C13_Idempotent ==
    /\ Len(rout) = 2 => rout[2] = rout[1]
    /\ (rout # <<>> /\ Safe(rin.name)) => rout[1] = rin.name

\* C13 witness: a name that changes when sanitized has been sanitized twice
C13_Witness ==
    /\ Len(rout) = 2
    /\ rout[1] # rin.name
    /\ rout[1] # <<>>

\* form stands at position i of url, followed by a digit
FormAt(url, i, form) ==
    /\ i + Len(form) <= Len(url)
    /\ \A k \in 1..Len(form) : url[i + k - 1] = form[k]
    /\ url[i + Len(form)] \in DigitChars

\* the places of url where one of the forms stands with a number
PlacesOf(url, forms) == {i \in 1..Len(url) : \E f \in forms : FormAt(url, i, f)}

\* the number N that stands behind the form at place i: all its digits
NumberAt(url, i, forms) ==
    LET f == CHOOSE g \in forms : FormAt(url, i, g)
        last == CHOOSE e \in (i + Len(f))..Len(url) :
                    /\ \A k \in (i + Len(f))..e : url[k] \in DigitChars
                    /\ (e = Len(url) \/ url[e + 1] \notin DigitChars)
    IN  SubSeq(url, i + Len(f), last)

ParamForms == {KeyCourseUnderscore, KeyCourseCamel}
PathForms == {KeyCoursePath}
Leftmost(S) == CHOOSE i \in S : \A j \in S : i <= j

\* C14 as claimed: extractCourseID returns N for every URL that contains
\* course_id=N, courseId=N or /course/N, and fails with not-found for every URL
\* that contains none of the three.
C14_ReturnsEveryN ==
    rout # None =>
        LET places == PlacesOf(rin.url, ParamForms \cup PathForms)
        IN  /\ \A i \in places :
                  /\ Out.err = ""
                  /\ Out.id = NumberAt(rin.url, i, ParamForms \cup PathForms)
            /\ places = {} => (Out.err = "course ID not found in URL" /\ Out.id = <<>>)

\* C14 amended: extractCourseID returns the N of the leftmost course_id=N or
\* courseId=N if the URL has one, otherwise the N of the leftmost /course/N, and
\* fails with not-found when the URL has none of the three.
C14_LeftmostParamThenPath ==
    rout # None =>
        LET params == PlacesOf(rin.url, ParamForms)
            paths == PlacesOf(rin.url, PathForms)
        IN  IF params # {}
            THEN Out = [id |-> NumberAt(rin.url, Leftmost(params), ParamForms), err |-> ""]
            ELSE IF paths # {}
            THEN Out = [id |-> NumberAt(rin.url, Leftmost(paths), PathForms), err |-> ""]
            ELSE Out = [id |-> <<>>, err |-> "course ID not found in URL"]

\* C14 witness: a URL with /course/N before course_id=M, N # M, was answered with M
C14_Witness ==
    /\ rout # None
    /\ \E i \in PlacesOf(rin.url, PathForms), j \in PlacesOf(rin.url, ParamForms) :
          /\ i < j
          /\ NumberAt(rin.url, i, PathForms) # NumberAt(rin.url, j, ParamForms)
          /\ Out.id = NumberAt(rin.url, j, ParamForms)

\* the status field that means success, by endpoint
SuccessStatus(call) == IF call \in {"VideoResource", "GLiveCheck"} THEN 200 ELSE 0

SawExpired ==
    \/ gw.classify = "expired"
    \/ gw.list = "expired"
    \/ \E g \in DOMAIN gw.syl : gw.syl[g] = "expired"

\* C16: whichever gateway call receives a body with the session-expired
\* marker, the extraction ends with a top-level error and no descriptor list.
C16_ExpiredIsFatal ==
    (Finished /\ SawExpired) => (Res.err # "" /\ Res.data = <<>>)

\* C17: of two Extract calls on the registered extractor, in any interleaving,
\* neither reads state the other wrote (every gateway call of a call goes
\* through the client and the request options that call stored), and each
\* returns the result it gives when run alone.
C17_CallsIsolated ==
    \A c \in Calls :
        /\ \A i \in DOMAIN visits[c] : visits[c][i].api = c /\ visits[c][i].request = c
        /\ result[c] # None => result[c][1] = Alone(c)

\* the positions between mu.Lock() and mu.Unlock()
LockedPcs == {"locked", "locked1", "locked2"}

\* the mutex m and the accumulator f of the append task t makes
LockOf(t) ==
    CASE t.k \in {"grad", "child"} -> WalkerTarget(t)
      [] t.k = "slot" -> [m |-> SlotsM(t.p), f |-> NodeF(t.p)]
      [] t.k = "res" -> [m |-> ListM(t.p, t.s), f |-> ListF(t.p, t.s)]
      [] t.k = "item" -> [m |-> ItemsM(Parent(t.p)), f |-> ItemsF(Parent(t.p))]
      [] t.k = "epgrad" -> [m |-> CourseM, f |-> CourseF]

\* the tasks between Lock and Unlock of mutex m
Holders(m) == {t \in DOMAIN pc : pc[t] \in LockedPcs /\ LockOf(t).m = m}

IsPrefix(a, b) == Len(a) <= Len(b) /\ SubSeq(b, 1, Len(a)) = a

\* what C18 says of one step of the extraction
AppendStep ==
    /\ \A f \in DOMAIN acc :
        acc'[f] # acc[f] =>
            \E t \in DOMAIN pc :
                /\ pc[t] \in LockedPcs /\ pc'[t] \notin LockedPcs
                /\ LockOf(t).f = f
                /\ LockOf(t).m \in mu /\ LockOf(t).m \notin mu'
                /\ IsPrefix(acc[f], acc'[f])
    /\ Cardinality({t \in DOMAIN pc : pc'[t] # pc[t]}) = 1
    /\ \A t \in DOMAIN pc :
        (pc[t] \in LockedPcs /\ pc'[t] # pc[t]) =>
            /\ pc'[t] \notin LockedPcs
            /\ gw' = gw /\ visits' = visits
            /\ DOMAIN pc' = DOMAIN pc /\ DOMAIN acc' = DOMAIN acc
    /\ \A t \in DOMAIN tmp : tmp'[t] # tmp[t] => pc'[t] # pc[t]

\* C18: within one extraction every held mutex has one holder; every write to
\* an existing accumulator is an append by a task that holds the mutex of that
\* accumulator and releases it with the append; every step makes one task move,
\* and a task that holds a mutex makes no gateway call, resolves no resource
\* and starts no traversal: its only step is the append.  A task writes no
\* other task's slice header.
C18_AppendsUnderLock ==
    /\ [](\A m \in mu : Cardinality(Holders(m)) = 1)
    /\ [][AppendStep]_vars

\* C18 witness: a task holds the mutex of an accumulator that another task has
\* already appended to, and has read that task's entry for its own append
C18_Witness ==
    \E t \in DOMAIN pc :
        /\ t.k = "res" /\ pc[t] = "locked"
        /\ LockOf(t).m \in mu
        /\ acc[LockOf(t).f] # <<>>
        /\ tmp[t] = acc[LockOf(t).f]
        /\ \E u \in DOMAIN pc : u # t /\ pc[u] = "done" /\ acc[LockOf(t).f][1].src = u

\* the task that runs the call of frame f
CallerOf(f) ==
    CASE f.k = "course" -> MainT
      [] f.k = "node" -> IF Len(f.p) = 1 THEN GradT(f.p[1]) ELSE ChildT(f.p)
      [] f.k = "reslist" -> SlotT(f.p, f.s)
      [] f.k = "items" -> IF Len(f.p) = 1 THEN EpGradT(f.p[1]) ELSE ItemT(f.p)

\* the positions of the caller after the call of frame f has returned
AfterReturn(f) ==
    CASE f.k = "course" -> {"done"}
      [] f.k = "items" /\ Len(f.p) > 1 -> {"locked1", "mid", "locked2", "done"}
      [] OTHER -> {"locked", "done"}

\* the tasks the call of frame f spawned (all of them, at any time)
SpawnedBy(f) ==
    CASE f.k = "course" -> {t \in DOMAIN pc : t.k \in {"grad", "epgrad"}}
      [] f.k = "node" -> {t \in DOMAIN pc : t.k \in {"child", "slot"} /\
                              (IF t.k = "child" THEN Parent(t.p) ELSE t.p) = f.p}
      [] f.k = "reslist" -> {t \in DOMAIN pc : t.k = "res" /\ t.p = f.p /\ t.s = f.s}
      [] f.k = "items" -> {t \in DOMAIN pc : t.k = "item" /\ Parent(t.p) = f.p}

\* the frames whose call has returned its accumulator
ReturnedFrames == {f \in DOMAIN acc : pc[CallerOf(f)] \in AfterReturn(f)}

\* C19: once a traversal call (course, syllabus node, item list, resource
\* list) has returned its accumulator, every task it spawned has finished and
\* the accumulator never changes again.
C19_ReturnAfterJoin ==
    /\ [](\A f \in ReturnedFrames : \A t \in SpawnedBy(f) : pc[t] = "done")
    /\ [][\A f \in ReturnedFrames : f \in DOMAIN acc' /\ acc'[f] = acc[f]]_vars

\* C19 witness: a resource list call with two resources has returned both
\* descriptors while the extraction is still running
C19_Witness ==
    /\ ~Finished
    /\ \E f \in ReturnedFrames :
        /\ f.k = "reslist"
        /\ Cardinality(SpawnedBy(f)) >= 2
        /\ Len(acc[f]) >= 2

\* the descriptor the resolver makes of the resource at place x
DescriptorOf(x) == Entry(x, Resolved(x.p, x.s, x.i).data[1])

\* C20: for a schema-A course the list Extract returns holds, exactly once
\* each, the descriptor of every resource that resolves to a descriptor, over
\* every node at every depth of every fetched gradation tree and over all four
\* slots, and nothing else.
C20_ListIsExtractable ==
    (Finished /\ gw.schema = "A" /\ Res.err = "") =>
        /\ Len(Res.data) = Cardinality(Extractable)
        /\ \A x \in Extractable : CountIn(Res.data, DescriptorOf(x)) = 1
        /\ \A k \in DOMAIN Res.data : Res.data[k].src \in Extractable

\* C20 witness: the returned list of a schema-A course holds a descriptor from
\* each of the four slots
C20_Witness ==
    /\ Finished /\ gw.schema = "A" /\ Res.err = ""
    /\ \A s \in 1..4 : \E k \in DOMAIN Res.data : Res.data[k].src.s = s

\* a second witness state: a descriptor from a node below the root of its tree
C20_DeepWitness ==
    /\ Finished /\ gw.schema = "A" /\ Res.err = ""
    /\ \E k \in DOMAIN Res.data : Len(Res.data[k].src.p) >= 2

----------------------------------------------------------------------------
(* C21..C30 *)

\* C21: in the schema-A walker no goroutine of a node's resource slots exists
\* before every goroutine of the node's children has finished and its list has
\* been merged into the node's accumulator.
C21_SlotsAfterChildren ==
    \A t \in DOMAIN pc :
        t.k \in {"slot", "res"} =>
            \A c \in ChildTasks(t.p) :
                /\ c \in DOMAIN pc /\ pc[c] = "done"
                /\ \A e \in Range(acc[NodeF(c.p)]) :
                      CountIn(acc[NodeF(t.p)], e) >= CountIn(acc[NodeF(c.p)], e)

\* C21 witness: a slot goroutine of a node has just been started, and the
\* node's accumulator already holds the descriptors of a child
C21_Witness ==
    \E t \in DOMAIN pc :
        /\ t.k = "slot" /\ pc[t] = "ready"
        /\ \E c \in ChildTasks(t.p) : acc[NodeF(c.p)] # <<>>

\* the run is of a live_new resource whose deep link parses and whose token
\* exchange answered a code
LiveResolved ==
    /\ rout # None
    /\ rin.resource.Discriminator = "live_new"
    /\ ~extractRoomIDAndToken(rin.resource.LiveUrlPlayBackApp).err
    /\ ~rin.env.check.err

\* C22: for a live_new resource whose deep link parses and whose token exchange
\* answers code c the resolver gives what the video mapping gives for the same
\* resource with video identifier c: the same descriptor or error, stream keys
\* that start with c, a source URL that names c, one quality fetch, and nothing
\* that depends on what the gateway would answer for the resource's own video
\* identifier.
C22_LiveIsVideoOfCode ==
    LiveResolved =>
        LET c  == rin.env.check.code
            asVideo == processVideoResource([rin.resource EXCEPT !.VideoID = c], TestBaseDir, rin.env)
            blind == [rin.env EXCEPT !.vr[rin.resource.VideoID] = ApiError]
        IN  /\ Out.data = asVideo.data /\ Out.err = asVideo.err
            /\ Out.calls.quality = 1 /\ Out.calls.check = 1
            /\ Out.err = (VideoResourceCall(rin.env, c).err \/ Unusable(rin.env, c))
            /\ Out.data # None =>
                  /\ Out.data[1].URL = UrlPrefix \o c
                  /\ \A k \in DOMAIN Out.data[1].Streams :
                        /\ IsPrefix(c \o <<"_">>, k)
                        /\ Out.data[1].Streams[k].ID = k
            /\ c # rin.resource.VideoID =>
                  processResource(rin.resource, TestBaseDir, blind).data = Out.data

\* C22 witness: a live_new resource was resolved to a descriptor under a code
\* that differs from its own video identifier
C22_Witness ==
    /\ LiveResolved
    /\ Out.data # None
    /\ rin.env.check.code # rin.resource.VideoID
    /\ \E k \in DOMAIN Out.data[1].Streams : k = StreamID(rin.env.check.code, SD)

\* the quality list the gateway answered for the video of this run
RunList == VideoResourceCall(rin.env, RunVideoID[1]).List

\* the quality entries of the run that are available, have a manifest path and
\* whose manifest expands
Eligible ==
    {q \in DOMAIN RunList :
        /\ RunList[q].Available = 1
        /\ RunList[q].Path # <<>>
        /\ ~ExpandManifest(rin.env, RunList[q].Path).err}

\* the run reached the video mapping and the quality fetch answered a list
VideoListed ==
    /\ rout # None /\ RunVideoID # None
    /\ ~VideoResourceCall(rin.env, RunVideoID[1]).err

\* C23: a video descriptor holds exactly one stream for every quality entry
\* that is available, has a manifest path and whose manifest expands, and no
\* other; one such quality is enough for a descriptor and no error, whatever
\* the other qualities are; the stream of quality q is keyed <videoID>_<q>, has
\* NeedMux false, size 1024 times the declared kilobytes, and one part with
\* extension ts for every segment URL, in the order of the expansion.
C23_StreamPerUsableQuality ==
    VideoListed =>
        /\ Eligible # {} => (Out.data # None /\ ~Out.err)
        /\ Out.data # None =>
            LET streams == Out.data[1].Streams
            IN  /\ Out.data[1].Type = "video"
                /\ DOMAIN streams = {StreamID(RunVideoID[1], q) : q \in Eligible}
                /\ Cardinality(DOMAIN streams) = Cardinality(Eligible)
                /\ \A q \in Eligible :
                      LET st   == streams[StreamID(RunVideoID[1], q)]
                          urls == ExpandManifest(rin.env, RunList[q].Path).urls
                      IN  /\ st.ID = RunVideoID[1] \o <<"_">> \o q
                          /\ st.NeedMux = FALSE
                          /\ st.Size = RunList[q].FileSize * 1024
                          /\ Len(st.Parts) = Len(urls)
                          /\ \A i \in DOMAIN urls :
                                st.Parts[i].URL = urls[i] /\ st.Parts[i].Ext = "ts"

\* C23 witness: of two available qualities with a path one expands to two
\* segments and the other fails to expand; the descriptor has the one stream
C23_Witness ==
    /\ VideoListed /\ Out.data # None
    /\ DOMAIN RunList = QualityLabels
    /\ Eligible = {SD}
    /\ RunList[HD].Available = 1 /\ RunList[HD].Path # <<>>
    /\ Len(Out.data[1].Streams[StreamID(RunVideoID[1], SD)].Parts) = 2

\* the run is of a lecture_note resource
DocResolved == rout # None /\ rin.resource.Discriminator = "lecture_note"

\* the strings of the model that strconv.Atoi parses, with their values
ParsedSizes == (<<"1", "2">> :> 12) @@ (<<"-", "4">> :> (0 - 4))

\* C24: for a lecture_note resource the document mapping never returns an
\* error; with an empty source path it returns no descriptor; otherwise it
\* returns one descriptor of kind document with one stream with one part whose
\* URL is the source path, and a file size that does not parse as a number
\* gives size 0.
C24_DocumentNeverFails ==
    DocResolved =>
        /\ ~Out.err
        /\ rin.resource.Path = <<>> => Out.data = None
        /\ rin.resource.Path # <<>> =>
            /\ Len(Out.data) = 1
            /\ Out.data[1].Type = "document"
            /\ Out.data[1].URL = rin.resource.Path
            /\ Cardinality(DOMAIN Out.data[1].Streams) = 1
            /\ \A k \in DOMAIN Out.data[1].Streams :
                  LET st == Out.data[1].Streams[k]
                      size == IF rin.resource.Filesize \in DOMAIN ParsedSizes
                              THEN ParsedSizes[rin.resource.Filesize] ELSE 0
                  IN  /\ Len(st.Parts) = 1
                      /\ st.Parts[1].URL = rin.resource.Path
                      /\ st.Size = size /\ st.Parts[1].Size = size

\* C24 witness: a document with a source path and the file size "x" got a
\* descriptor of size 0
C24_Witness ==
    /\ DocResolved
    /\ rin.resource.Path # <<>> /\ rin.resource.Filesize = <<"x">>
    /\ Out.data # None
    /\ \E k \in DOMAIN Out.data[1].Streams : Out.data[1].Streams[k].Size = 0

\* the last segment of the destination path of the descriptor of this run
LastSegment == Out.data[1].Title[Len(Out.data[1].Title)]

\* C25: the last segment of the destination path of every emitted descriptor is
\* non-empty: it is the sanitized title of the resource or, when that is
\* empty, video_<ID> for a video descriptor and document_<ID> for a document
\* descriptor; the segments before it are those of the base directory.
C25_LastSegmentNamed ==
    (rout # None /\ Out.data # None) =>
        LET san == sanitizeFileName(rin.resource.Title)
        IN  /\ LastSegment # <<>>
            /\ san # <<>> => LastSegment = san
            /\ (san = <<>> /\ Out.data[1].Type = "video")
                  => LastSegment = <<"v", "i", "d", "e", "o", "_">> \o Itoa(rin.resource.ID)
            /\ (san = <<>> /\ Out.data[1].Type = "document")
                  => LastSegment = <<"d", "o", "c", "u", "m", "e", "n", "t", "_">> \o Itoa(rin.resource.ID)
            /\ Out.data[1].Title = TestBaseDir \o <<LastSegment>>

\* C25 witness: a document whose title is made of a space and a dot only got
\* the fallback name
C25_Witness ==
    /\ rout # None /\ Out.data # None
    /\ rin.resource.Title = <<" ", ".">>
    /\ Out.data[1].Type = "document"
    /\ LastSegment = <<"d", "o", "c", "u", "m", "e", "n", "t", "_", "7">>

\* a second witness state: a video without a title got the fallback name
C25_VideoWitness ==
    /\ rout # None /\ Out.data # None
    /\ rin.resource.Title = <<>>
    /\ LastSegment = <<"v", "i", "d", "e", "o", "_", "7">>

\* all descriptors held by the accumulators of a schema-A extraction
Emitted == IF gw.schema = "A" THEN UNION {Range(acc[f]) : f \in DOMAIN acc} ELSE {}

\* the path made of a course ID, a gradation name, a node name and the name
\* of a resource with this title, ID and kind of descriptor
PathFrom(courseID, gradationName, nodeName, title, id, type) ==
    LET last == IF sanitizeFileName(title) # <<>> THEN sanitizeFileName(title)
                ELSE (IF type = "video" THEN VideoPrefix ELSE DocPrefix) \o Itoa(id)
    IN  Clean(<<>>, <<courseID, sanitizeFileName(gradationName), sanitizeFileName(nodeName), last>>)

\* C26: the destination path of a descriptor is made of the course ID, the name
\* of the gradation, the name of the node that directly holds the resource and
\* the title of the resource (or its fallback), and of nothing else: neither
\* the slot nor the names of the node's ancestors enter it, so that resources
\* of the same title in different slots of one node get the same path.
C26_PathFromFourNames ==
    /\ \A e \in Emitted :
          e.d.Title = PathFrom(CourseID, GStudyAnswer[e.src.p[1]].Name, NodeOf(e.src.p).Name,
                               ResourceAt(e.src).Title, ResourceAt(e.src).ID, e.d.Type)
    /\ \A e, o \in Emitted :
          (/\ e.src.p = o.src.p
           /\ ResourceAt(e.src).Title = ResourceAt(o.src).Title
           /\ ResourceAt(e.src).ID = ResourceAt(o.src).ID
           /\ e.d.Type = o.d.Type) => e.d.Title = o.d.Title

\* C26 witness: Extract returned two descriptors of resources in different
\* slots of one node, with the same destination path
C26_Witness ==
    /\ Finished /\ gw.schema = "A"
    /\ \E k, l \in DOMAIN Res.data :
          /\ Res.data[k].src.p = Res.data[l].src.p
          /\ Res.data[k].src.s # Res.data[l].src.s
          /\ Res.data[k].d.Title = Res.data[l].d.Title

\* a second witness state: the descriptor of a resource of a child node, whose
\* path names the child and not the root above it
C26_DeepWitness ==
    /\ Finished /\ gw.schema = "A"
    /\ \E k \in DOMAIN Res.data :
          /\ Len(Res.data[k].src.p) = 2
          /\ Len(Res.data[k].d.Title) = 4
          /\ Res.data[k].d.Title[3] = <<"k">>

\* what C27 says of one step of the goroutine of item t
ItemStep(t) ==
    /\ (pc[t] = "ready" /\ pc'[t] # "ready") =>
          IF ItemOf(t.p).Children # <<>>
          THEN pc'[t] = "sub" /\ \A c \in SubItemTasks(t.p) : c \in DOMAIN pc' /\ pc'[c] = "ready"
          ELSE pc'[t] = "mid"
    /\ (pc[t] = "locked1" /\ pc'[t] # "locked1") =>
          /\ pc'[t] = "mid"
          /\ acc'[ItemsF(Parent(t.p))] = acc[ItemsF(Parent(t.p))] \o acc[ItemsF(t.p)]
    /\ (pc[t] = "mid" /\ pc'[t] # "mid") =>
          IF ItemOf(t.p).IsResource = 0
          THEN pc'[t] = "done" /\ acc' = acc /\ mu' = mu
          ELSE pc'[t] = "locked2"
    /\ (pc[t] = "locked2" /\ pc'[t] # "locked2") =>
          /\ pc'[t] = "done"
          /\ acc'[ItemsF(Parent(t.p))] =
                acc[ItemsF(Parent(t.p))] \o extractEpStudyResources(ItemOf(t.p), <<>>).data

\* C27: in the schema-B walker the children of an item are walked whatever its
\* IsResource flag is, and their list is merged into the list of the item's
\* level; after that an item whose flag is unset ends without a descriptor of
\* its own, and an item whose flag is set goes through the schema-B resource
\* mapping, whose list is merged as well.  When the walker has returned, every
\* item at every depth of every fetched gradation has been visited once.
C27_FlagAfterChildren ==
    /\ [][\A t \in DOMAIN pc : t.k = "item" => ItemStep(t)]_vars
    /\ [](\A t \in DOMAIN pc :
            (t.k = "item" /\ pc[t] \in {"locked2", "mid", "done"}) =>
                /\ pc[t] = "locked2" => ItemOf(t.p).IsResource # 0
                /\ \A c \in SubItemTasks(t.p) : c \in DOMAIN pc /\ pc[c] = "done")
    /\ []((Finished /\ Res.err = "" /\ gw.schema = "B") =>
            \A g \in DOMAIN EpStudyAnswer :
                Fetched(g) => \A q \in ItemsOf(g) : Visits(ItemT(q)) = 1)

\* C27 witness: the walker returned after an item whose flag is unset ended,
\* and the item's child, whose flag is set, has been walked
C27_Witness ==
    /\ Finished /\ Res.err = "" /\ gw.schema = "B"
    /\ \E t \in DOMAIN pc :
          /\ t.k = "item" /\ pc[t] = "done"
          /\ ItemOf(t.p).IsResource = 0 /\ ItemOf(t.p).Children # <<>>
          /\ \E c \in SubItemTasks(t.p) :
                c \in DOMAIN pc /\ pc[c] = "done" /\ ItemOf(c.p).IsResource = 1 /\ c \in DOMAIN tmp

\* the item fetch of schema-B gradation g was issued and failed
EpFetchFailed(g) == <<g>> \in DOMAIN gw.syl /\ gw.syl[<<g>>] # "ok"

\* C28: in the schema-B walker, once the gradation list has been fetched no
\* failure inside the traversal reaches the caller: the walker returns its list
\* and no error; a gradation whose item fetch failed contributes nothing and
\* none of its items is walked, and every other gradation with an identity is
\* walked in full.
C28_EpFailuresSwallowed ==
    (Finished /\ gw.schema = "B" /\ gw.list = "ok") =>
        /\ Res.err = ""
        /\ Res.data = ReturnedBy(CourseF)
        /\ \A g \in DOMAIN EpStudyAnswer :
              /\ EpFetchFailed(g) =>
                    /\ ItemsF(<<g>>) \notin DOMAIN acc
                    /\ \A t \in DOMAIN pc : t.k = "item" => t.p[1] # g
                    /\ \A k \in DOMAIN Res.data : Res.data[k].src.p[1] # g
              /\ Fetched(g) =>
                    /\ \A q \in ItemsOf(g) : ItemT(q) \in DOMAIN pc /\ pc[ItemT(q)] = "done"
                    /\ ItemsF(<<g>>) \in DOMAIN acc

\* C28 witness: the walker returned without error after the item fetch of one
\* gradation failed and the items of another were walked
C28_Witness ==
    /\ Finished /\ gw.schema = "B" /\ gw.list = "ok" /\ Res.err = ""
    /\ \E g, h \in DOMAIN EpStudyAnswer :
          /\ EpFetchFailed(g)
          /\ Fetched(h) /\ ItemsOf(h) # {}

\* the gradations of the listing the walker of this extraction fetches a
\* syllabus for: under schema A those with a syllabus root, under schema B
\* those with a non-empty identity
Eligibles ==
    IF gw.schema = "A"
    THEN {g \in DOMAIN GStudyAnswer : GStudyAnswer[g].GSyllabus # None}
    ELSE {g \in DOMAIN EpStudyAnswer : EpStudyAnswer[g].ID # <<>>}

Listed == IF gw.schema = "A" THEN DOMAIN GStudyAnswer ELSE DOMAIN EpStudyAnswer

\* the goroutine of gradation g of the listing
GradationTask(g) == IF gw.schema = "A" THEN GradT(g) ELSE EpGradT(g)

\* C29: a syllabus fetch is issued only for an eligible gradation of the
\* listing, and when the walker has returned it has been issued for every one
\* of them, whatever the others were; the goroutine of a gradation that is not
\* eligible ends with no gateway call, no accumulator and no descriptor, and
\* the walker returns no error.
C29_FetchOnlyEligible ==
    gw.schema # "" =>
        /\ DOMAIN gw.syl \subseteq {<<g>> : g \in Eligibles}
        /\ \A g \in Listed \ Eligibles :
              /\ NodeF(<<g>>) \notin DOMAIN acc /\ ItemsF(<<g>>) \notin DOMAIN acc
              /\ \A f \in DOMAIN acc : \A k \in DOMAIN acc[f] : acc[f][k].src.p[1] # g
              /\ \A t \in DOMAIN pc : t.k \in {"child", "slot", "res", "item"} => t.p[1] # g
        /\ (Finished /\ gw.list = "ok") =>
              /\ Res.err = ""
              /\ DOMAIN gw.syl = {<<g>> : g \in Eligibles}
              /\ \A g \in Listed : pc[GradationTask(g)] = "done"

\* C29 witness: the schema-A walker returned after it skipped a gradation
\* without a syllabus root and fetched and walked another
C29_Witness ==
    /\ Finished /\ gw.schema = "A" /\ gw.list = "ok"
    /\ \E g, h \in DOMAIN GStudyAnswer :
          /\ g \notin Eligibles /\ pc[GradT(g)] = "done"
          /\ Fetched(h) /\ \E k \in DOMAIN Res.data : Res.data[k].src.p[1] = h

\* a second witness state: the schema-B walker skipped a gradation without
\* identity and fetched another
C29_EpWitness ==
    /\ Finished /\ gw.schema = "B" /\ gw.list = "ok"
    /\ \E g, h \in DOMAIN EpStudyAnswer :
          /\ g \notin Eligibles /\ pc[EpGradT(g)] = "done"
          /\ Fetched(h)

\* the numbers that stand behind the forms of url
NumbersOf(url, forms) == {NumberAt(url, i, forms) : i \in PlacesOf(url, forms)}

\* C30: when a URL holds a course_id= or courseId= parameter with value N and a
\* /course/M segment with M different from N, extractCourseID returns N and no
\* error, wherever the two stand.
C30_ParamBeforePath ==
    rout # None =>
        \A N \in NumbersOf(rin.url, ParamForms) :
            (/\ NumbersOf(rin.url, ParamForms) = {N}
             /\ \E M \in NumbersOf(rin.url, PathForms) : M # N)
                => Out = [id |-> N, err |-> ""]

\* C30 witness: a URL with /course/7 standing before courseId=17 was answered
\* with 17
C30_Witness ==
    /\ rout # None
    /\ rin.url = UrlHead \o KeyCoursePath \o <<"7">> \o <<"&">> \o KeyCourseCamel \o <<"1", "7">>
    /\ Out = [id |-> <<"1", "7">>, err |-> ""]

----------------------------------------------------------------------------
(* C31..C32 *)

\* Extract has returned, every goroutine has run its wg.Done() and no mutex is held
AllDone == Finished /\ mu = {} /\ \A t \in DOMAIN pc : pc[t] = "done"

\* C31: when every gateway call and every manifest expansion returns, Extract
\* terminates: it returns, every goroutine that was started has signalled its
\* completion, error and skip paths included, and no mutex stays held; a
\* goroutine signals its completion once, it never runs again afterwards.
C31_Terminates ==
    /\ <>[]AllDone
    /\ [][\A t \in DOMAIN pc : pc[t] = "done" => pc'[t] = "done"]_vars

\* C31 witness: an extraction has ended in which one gradation's syllabus fetch
\* failed, one resource failed to resolve and another was appended under the lock
C31_Witness ==
    /\ AllDone /\ Res.err = "" /\ gw.schema = "A"
    /\ \E g \in DOMAIN gw.syl : gw.syl[g] # "ok"
    /\ \E t, u \in DOMAIN pc :
          /\ t.k = "res" /\ u.k = "res"
          /\ Resolved(t.p, t.s, t.i).err
          /\ Occurrences(Res.data, u) = 1

\* C32: a course classified as schema B whose gradation listing was fetched ends
\* with an empty descriptor list and no error, whatever the tree and the
\* IsResource flags of its items; no accumulator of the walk ever holds a
\* descriptor.
C32_SchemaBYieldsNothing ==
    (gw.schema = "B" /\ gw.list = "ok") =>
        /\ \A f \in DOMAIN acc : acc[f] = <<>>
        /\ Finished => (Res.data = <<>> /\ Res.err = "")

\* C32 witness: a schema-B extraction has returned after walking a tree with a
\* flagged item that has children and an item that is not flagged
C32_Witness ==
    /\ Finished /\ gw.schema = "B" /\ gw.list = "ok"
    /\ \E t, u \in DOMAIN pc :
          /\ t.k = "item" /\ u.k = "item"
          /\ pc[t] = "done" /\ pc[u] = "done"
          /\ ItemOf(t.p).IsResource = 1 /\ Len(ItemOf(t.p).Children) > 0
          /\ ItemOf(u.p).IsResource = 0

====
